---- MODULE Spec2Model ----
(***************************************************************************)
(* Identity and access subsystem of go-rest-api-example: AuthService       *)
(* (LogIn, LogInByLine, RefreshToken, LogOut), UserService.GetByToken, the *)
(* JWT helpers, the AuthRequired middleware and the password-reset         *)
(* handlers with PasswordService, over the relational store.               *)
(*                                                                         *)
(* Time is Unix time in seconds; a JWT is the record of its claims plus    *)
(* the key it was signed with.                                             *)
(***************************************************************************)
EXTENDS Integers, Sequences, FiniteSets, TLC

VARIABLES
    users,            \* users table: id -> row
    roles,            \* roles table: role id -> row (partial function)
    rolePermissions,  \* role_permissions table: set of <<role id, permission id>>
    refreshTokens,    \* refresh_tokens table, in primary-key order
    activityLogs,     \* activity_logs table, in primary-key order
    passwordResets,   \* password_resets table, in insertion order
    now,              \* time.Now().Unix()
    issued,           \* token sets returned to clients by LogIn
    last,             \* the last call: its input and what it returned
    reqs              \* requests in flight: the position of each in its handler

vars == <<users, roles, rolePermissions, refreshTokens, activityLogs, passwordResets, now,
          issued, last, reqs>>

----------------------------------------------------------------------------
(* Bounds of the model *)

MaxClock == 5184001   \* the clock stops here (two ticks of 30 days)
MaxLogs == 2          \* activity_logs rows
MaxReqs == 3          \* concurrent requests
MaxConcLogs == 3      \* activity_logs rows under concurrent requests
MaxChain == 3         \* calls in a row that are counted
MaxResets == 2        \* password_resets rows, deleted ones included
MaxResetClock == 3602 \* the clock stops here while passwords are reset
MaxUsers == 3         \* users rows
MaxResetReqs == 2     \* concurrent /password requests

(* The fixture: the principals present in the store at start. *)
UserIDs == {1, 2}
LowerLetters == <<"a", "b", "c">>
UpperLetters == <<"A", "B", "C">>
Passwords == {"pw1", "pw2"}
TickSteps == {2592000}
ResetTickSteps == {3600, 3601}
ResetEmails == {<<"a">>, <<"c">>}
ResetTokens == {"t1", "t2"}
ResetSalts == {"salt3"}

----------------------------------------------------------------------------
(* Program constants *)

RoleAdmin == "Admin"
AllPermissions == {"perm-read", "perm-update"}
ActTypeLogin == "login"
ActTypeLogout == "logout"
AccessTokenLifespan == 2592000      \* 30 days
RefreshTokenLifespan == 2592000     \* 30 days
LineRefreshTokenLifespan == 604800  \* 7 days
JwtSecretKey == "JWT_SECRET_KEY"
NoExp == -1           \* a token without an exp claim
NoRole == "nil"       \* User.RoleID == nil
ZeroRoleID == ""      \* Role.ID left at its zero value
NoUser == 0
NoTeam == 0           \* no "team" key in the request context

PasswordResetRecordExpiryTime == 3600

StatusOK == 200
StatusCreated == 201
StatusBadRequest == 400
StatusUnauthorized == 401
StatusInternalServerError == 500
StatusNoContent == 204
StatusNotFound == 404
StatusConflict == 409

----------------------------------------------------------------------------
(* strings.ToLower over the letters of the model *)

LowerChar(c) ==
    IF \E i \in 1..3 : UpperLetters[i] = c
    THEN LowerLetters[CHOOSE i \in 1..3 : UpperLetters[i] = c]
    ELSE c

ToLower(s) == [i \in DOMAIN s |-> LowerChar(s[i])]

(* bcrypt: a salted digest; the comparison recomputes it from the salt. *)
Digest(salt, password) == <<salt, password>>

HashPassword(password, salt) == [salt |-> salt, digest |-> Digest(salt, password)]

CompareHashAndPassword(hash, password) == hash.digest = Digest(hash.salt, password)

----------------------------------------------------------------------------
(* JWT helpers *)

NoToken == [id |-> NoUser, type |-> "none", exp |-> NoExp, key |-> "none"]

ForgedToken == [id |-> 1, type |-> "access", exp |-> NoExp, key |-> "forged"]

CreateJwtToken(usrID, exp, key, tokenType) ==
    LET claims == [id |-> usrID, type |-> tokenType, exp |-> NoExp, key |-> key]
    IN  IF exp # 0 THEN [claims EXCEPT !.exp = exp] ELSE claims

CreateAccessToken(userID, expiredAt) ==
    CreateJwtToken(userID, expiredAt, JwtSecretKey, "access")

(* a refresh token minted with the access purpose *)
CreateRefreshToken_AsAccess(userID, expiredAt) ==
    CreateJwtToken(userID, expiredAt, JwtSecretKey, "access")

CreateRefreshToken(userID, expiredAt) ==
    CreateJwtToken(userID, expiredAt, JwtSecretKey, "refresh")

(* jwt.Parse that ignores the exp claim *)
ParseToken_IgnoreExp(tok, t) ==
    IF tok.key # JwtSecretKey THEN [err |-> "ValidationError", claims |-> NoToken]
    ELSE [err |-> "nil", claims |-> tok]

(* jwt.Parse: signature check, then the exp claim when present (valid while now <= exp) *)
ParseToken(tok, t) ==
    IF tok.key # JwtSecretKey THEN [err |-> "ValidationError", claims |-> NoToken]
    ELSE IF tok.exp # NoExp /\ t > tok.exp THEN [err |-> "ValidationError", claims |-> NoToken]
    ELSE [err |-> "nil", claims |-> tok]

----------------------------------------------------------------------------
(* Store snapshot, so that a transaction can be rolled back as a whole *)

DB == [users |-> users, roles |-> roles, rolePermissions |-> rolePermissions,
       refreshTokens |-> refreshTokens, activityLogs |-> activityLogs,
       passwordResets |-> passwordResets]

FindUserByEmail(us, email) ==
    IF \E u \in DOMAIN us : ~us[u].deleted /\ us[u].email = email
    THEN CHOOSE u \in DOMAIN us : ~us[u].deleted /\ us[u].email = email
    ELSE NoUser

FindUserByID(us, id) ==
    IF id \in DOMAIN us /\ ~us[id].deleted THEN id ELSE NoUser

(* First(&rt, "token = ?"): index of the first row holding the token, 0 if none *)
FirstRefreshToken(rts, tok) ==
    IF \E i \in DOMAIN rts : rts[i].token = tok
    THEN CHOOSE i \in DOMAIN rts :
            rts[i].token = tok /\ \A j \in DOMAIN rts : rts[j].token = tok => i <= j
    ELSE 0

----------------------------------------------------------------------------
(* UserService.GetByToken: the user whose id the token carries.  dbErr is  *)
(* the outcome of the users query (TRUE: the store answered with an error) *)

GetByToken(us, tok, t, dbErr) ==
    LET parsed == ParseToken(tok, t)
        typ == parsed.claims.type
    IN  IF parsed.err # "nil" THEN [err |-> "ValidationError", user |-> NoUser]
        ELSE IF typ # "access" /\ typ # "refresh"
             THEN [err |-> "InvalidTokenType", user |-> NoUser]
        ELSE IF dbErr THEN [err |-> "StorageFailure", user |-> NoUser]
        ELSE IF FindUserByID(us, parsed.claims.id) = NoUser
             THEN [err |-> "ErrUserNotFound", user |-> NoUser]
        ELSE [err |-> "nil", user |-> parsed.claims.id]

----------------------------------------------------------------------------
(* AuthService.LogIn *)

LogInFaults == {"none", "createToken", "saveUser", "createLog", "commit"}

(* The role LogIn gives to a user that has none: Save(&user) inserts       *)
(* user.Role (left alone when a row with its id exists), links its         *)
(* permissions and stores the role's id in the user's role_id.             *)
SaveUserWithRole(db, u) ==
    LET role == [name |-> RoleAdmin, teamID |-> db.users[u].organizationID, deleted |-> FALSE]
        id == ZeroRoleID
    IN  [db EXCEPT
            !.roles = IF id \in DOMAIN db.roles THEN db.roles
                      ELSE [r \in DOMAIN db.roles \cup {id} |->
                                IF r = id THEN role ELSE db.roles[r]],
            !.rolePermissions = db.rolePermissions \cup {<<id, p>> : p \in AllPermissions},
            !.users = [db.users EXCEPT ![u].roleID = id]]

(* LogIn whose failed ActivityLog insert is not rolled back *)
LogInTx_NoRollback(db, u, refreshTokenStr, fault) ==
    LET db1 == [db EXCEPT !.refreshTokens =
                    Append(db.refreshTokens, [token |-> refreshTokenStr, revoked |-> FALSE])]
        db2 == IF db1.users[u].roleID = NoRole THEN SaveUserWithRole(db1, u) ELSE db1
        db3 == [db2 EXCEPT !.activityLogs =
                    Append(db2.activityLogs, [userID |-> u, activityType |-> ActTypeLogin])]
    IN  IF fault = "createToken" THEN [err |-> "StorageFailure", db |-> db]
        ELSE IF fault = "saveUser" /\ db1.users[u].roleID = NoRole
             THEN [err |-> "StorageFailure", db |-> db]
        ELSE IF fault = "createLog" THEN [err |-> "StorageFailure", db |-> db2]
        ELSE IF fault = "commit" THEN [err |-> "StorageFailure", db |-> db]
        ELSE [err |-> "nil", db |-> db3]

(* The transaction of LogIn: every failure rolls back to the store at Begin *)
LogInTx(db, u, refreshTokenStr, fault) ==
    LET db1 == [db EXCEPT !.refreshTokens =
                    Append(db.refreshTokens, [token |-> refreshTokenStr, revoked |-> FALSE])]
        db2 == IF db1.users[u].roleID = NoRole THEN SaveUserWithRole(db1, u) ELSE db1
        db3 == [db2 EXCEPT !.activityLogs =
                    Append(db2.activityLogs, [userID |-> u, activityType |-> ActTypeLogin])]
    IN  IF fault = "createToken" THEN [err |-> "StorageFailure", db |-> db]
        ELSE IF fault = "saveUser" /\ db1.users[u].roleID = NoRole
             THEN [err |-> "StorageFailure", db |-> db]
        ELSE IF fault = "createLog" THEN [err |-> "StorageFailure", db |-> db]
        ELSE IF fault = "commit" THEN [err |-> "StorageFailure", db |-> db]
        ELSE [err |-> "nil", db |-> db3]

(* an access token lifespan that is never set *)
AccessTokenExpiredAt_Never(t, isLongLiveToken) == 0

AccessTokenExpiredAt(t, isLongLiveToken) ==
    IF isLongLiveToken THEN 0 ELSE t + AccessTokenLifespan

(* LogIn without the password comparison *)
LogInResult_NoPasswordCheck(db, t, email, password, isLongLiveToken, fault) ==
    LET u == FindUserByEmail(db.users, ToLower(email))
        accessTokenStr == CreateAccessToken(u, AccessTokenExpiredAt(t, isLongLiveToken))
        refreshTokenStr == CreateRefreshToken(u, t + RefreshTokenLifespan)
        tx == LogInTx(db, u, refreshTokenStr, fault)
        failed(e) == [err |-> e, access |-> NoToken, refresh |-> NoToken, db |-> db]
    IN  IF u = NoUser THEN failed("ErrRecordNotFound")
        ELSE IF tx.err # "nil" THEN [failed(tx.err) EXCEPT !.db = tx.db]
        ELSE [err |-> "nil", access |-> accessTokenStr, refresh |-> refreshTokenStr,
              db |-> tx.db]

LogInResult(db, t, email, password, isLongLiveToken, fault) ==
    LET u == FindUserByEmail(db.users, ToLower(email))
        accessTokenStr == CreateAccessToken(u, AccessTokenExpiredAt(t, isLongLiveToken))
        refreshTokenStr == CreateRefreshToken(u, t + RefreshTokenLifespan)
        tx == LogInTx(db, u, refreshTokenStr, fault)
        failed(e) == [err |-> e, access |-> NoToken, refresh |-> NoToken, db |-> db]
    IN  IF u = NoUser THEN failed("ErrRecordNotFound")
        ELSE IF ~CompareHashAndPassword(db.users[u].password, password)
             THEN failed("ErrMismatchedHashAndPassword")
        ELSE IF tx.err # "nil" THEN [failed(tx.err) EXCEPT !.db = tx.db]
        ELSE [err |-> "nil", access |-> accessTokenStr, refresh |-> refreshTokenStr,
              db |-> tx.db]

----------------------------------------------------------------------------
(* AuthService.LogInByLine: the user is looked up by its Line id; the      *)
(* refresh token row and the login entry are written in one transaction.   *)

LogInByLineFaults == {"none", "find", "createToken", "createLog", "commit"}

FindUserByLineID(us, lineID) ==
    IF \E u \in DOMAIN us : ~us[u].deleted /\ us[u].lineID = lineID
    THEN CHOOSE u \in DOMAIN us :
            /\ ~us[u].deleted /\ us[u].lineID = lineID
            /\ \A v \in DOMAIN us : (~us[v].deleted /\ us[v].lineID = lineID) => u <= v
    ELSE NoUser

LogInByLineResult(db, t, lineID, fault) ==
    LET usr == FindUserByLineID(db.users, lineID)
        accTok == CreateAccessToken(usr, t + AccessTokenLifespan)
        refreshTok == CreateRefreshToken(usr, t + LineRefreshTokenLifespan)
        db1 == [db EXCEPT !.refreshTokens =
                    Append(db.refreshTokens, [token |-> refreshTok, revoked |-> FALSE])]
        db2 == [db1 EXCEPT !.activityLogs =
                    Append(db1.activityLogs, [userID |-> usr, activityType |-> ActTypeLogin])]
        failed(e) == [err |-> e, access |-> NoToken, refresh |-> NoToken, db |-> db]
    IN  IF fault = "find" THEN failed("StorageFailure")
        ELSE IF usr = NoUser THEN failed("ErrRecordNotFound")
        ELSE IF fault # "none" THEN failed("StorageFailure")
        ELSE [err |-> "nil", access |-> accTok, refresh |-> refreshTok, db |-> db2]

----------------------------------------------------------------------------
(* AuthService.RefreshToken *)

RefreshFaults == {"none", "find"}

(* RefreshToken without the revoked check *)
RefreshTokenResult_NoRevokedCheck(rts, tok, t, fault) ==
    LET i == FirstRefreshToken(rts, tok)
        parsed == ParseToken(tok, t)
        failed(e) == [err |-> e, access |-> NoToken]
    IN  IF fault = "find" THEN failed("StorageFailure")
        ELSE IF i = 0 THEN failed("ErrRecordNotFound")
        ELSE IF parsed.err # "nil" THEN failed(parsed.err)
        ELSE IF parsed.claims.type # "refresh" THEN failed("WrongTokenType")
        ELSE [err |-> "nil",
              access |-> CreateAccessToken(parsed.claims.id, t + AccessTokenLifespan)]

(* RefreshToken that decodes the token before it looks the record up *)
RefreshTokenResult_TypeFirst(rts, tok, t, fault) ==
    LET i == FirstRefreshToken(rts, tok)
        parsed == ParseToken(tok, t)
        failed(e) == [err |-> e, access |-> NoToken]
    IN  IF parsed.err # "nil" THEN failed(parsed.err)
        ELSE IF parsed.claims.type # "refresh" THEN failed("WrongTokenType")
        ELSE IF fault = "find" THEN failed("StorageFailure")
        ELSE IF i = 0 THEN failed("ErrRecordNotFound")
        ELSE IF rts[i].revoked THEN failed("ErrRevokedToken")
        ELSE [err |-> "nil",
              access |-> CreateAccessToken(parsed.claims.id, t + AccessTokenLifespan)]

RefreshTokenResult(rts, tok, t, fault) ==
    LET i == FirstRefreshToken(rts, tok)
        parsed == ParseToken(tok, t)
        failed(e) == [err |-> e, access |-> NoToken]
    IN  IF fault = "find" THEN failed("StorageFailure")
        ELSE IF i = 0 THEN failed("ErrRecordNotFound")
        ELSE IF rts[i].revoked THEN failed("ErrRevokedToken")
        ELSE IF parsed.err # "nil" THEN failed(parsed.err)
        ELSE IF parsed.claims.type # "refresh" THEN failed("WrongTokenType")
        ELSE [err |-> "nil",
              access |-> CreateAccessToken(parsed.claims.id, t + AccessTokenLifespan)]

----------------------------------------------------------------------------
(* AuthService.LogOut.  tx is the plain connection (no Begin), so every    *)
(* statement is committed as it runs and tx.Rollback() undoes nothing.     *)

LogOutFaults == {"none", "update", "getByToken", "createLog"}

(* an UPDATE that sets no flag *)
RevokeRefreshToken_Noop(rts, tok) == rts

(* an UPDATE that flips the flag *)
RevokeRefreshToken_Toggle(rts, tok) ==
    [i \in DOMAIN rts |-> IF rts[i].token = tok THEN [rts[i] EXCEPT !.revoked = ~rts[i].revoked]
                          ELSE rts[i]]

RevokeRefreshToken(rts, tok) ==
    [i \in DOMAIN rts |-> IF rts[i].token = tok THEN [rts[i] EXCEPT !.revoked = TRUE]
                          ELSE rts[i]]

(* LogOut whose log entry takes the place of the latest entry *)
LogOutResult_OverwriteLog(db, tok, t, fault) ==
    LET db1 == [db EXCEPT !.refreshTokens = RevokeRefreshToken(db.refreshTokens, tok)]
        usr == GetByToken(db1.users, tok, t, fault = "getByToken")
        n == Len(db1.activityLogs)
        entry == [userID |-> usr.user, activityType |-> ActTypeLogout]
        db2 == [db1 EXCEPT !.activityLogs =
                    IF n = 0 THEN <<entry>> ELSE [db1.activityLogs EXCEPT ![n] = entry]]
    IN  IF fault = "update" THEN [err |-> "StorageFailure", db |-> db]
        ELSE IF usr.err # "nil" THEN [err |-> usr.err, db |-> db1]
        ELSE IF fault = "createLog" THEN [err |-> "StorageFailure", db |-> db1]
        ELSE [err |-> "nil", db |-> db2]

LogOutResult(db, tok, t, fault) ==
    LET db1 == [db EXCEPT !.refreshTokens = RevokeRefreshToken(db.refreshTokens, tok)]
        usr == GetByToken(db1.users, tok, t, fault = "getByToken")
        db2 == [db1 EXCEPT !.activityLogs =
                    Append(db1.activityLogs, [userID |-> usr.user, activityType |-> ActTypeLogout])]
    IN  IF fault = "update" THEN [err |-> "StorageFailure", db |-> db]
        ELSE IF usr.err # "nil" THEN [err |-> usr.err, db |-> db1]
        ELSE IF fault = "createLog" THEN [err |-> "StorageFailure", db |-> db1]
        ELSE [err |-> "nil", db |-> db2]

----------------------------------------------------------------------------
(* middleware.AuthRequired.  NoToken stands for a request without a bearer *)
(* token.  The team is fetched (a failure aborts with 500) but only "user" *)
(* and "context" are set in the request context.                           *)

AuthFaults == {"none", "getByToken", "findTeam"}

AuthRequiredResult(us, tok, t, fault) ==
    LET got == GetByToken(us, tok, t, fault = "getByToken")
        aborted(code) == [status |-> code, ctxUser |-> NoUser, ctxTeam |-> NoTeam,
                          next |-> FALSE]
    IN  IF tok = NoToken THEN aborted(StatusUnauthorized)
        ELSE IF got.err = "ValidationError" THEN aborted(StatusUnauthorized)
        ELSE IF got.err = "ErrUserNotFound" THEN aborted(StatusUnauthorized)
        ELSE IF got.err # "nil" THEN aborted(StatusInternalServerError)
        ELSE IF fault = "findTeam" THEN aborted(StatusInternalServerError)
        ELSE [status |-> 0, ctxUser |-> got.user, ctxTeam |-> NoTeam, next |-> TRUE]

----------------------------------------------------------------------------
(* PasswordService.  A deleted password_resets row keeps its place with    *)
(* deleted set (gorm.DeletedAt) and is invisible to every query.           *)

NoPasswordReset == [email |-> <<>>, token |-> "", createdAt |-> 0, deleted |-> FALSE]

(* The rows of an email that queries see *)
VisiblePasswordResets(prs, email) ==
    {i \in DOMAIN prs : ~prs[i].deleted /\ prs[i].email = email}

(* First(&pr, "email = ?"): index of the first visible row, 0 if none *)
FirstPasswordResetByEmail(prs, email) ==
    IF VisiblePasswordResets(prs, email) # {}
    THEN CHOOSE i \in VisiblePasswordResets(prs, email) :
            \A j \in VisiblePasswordResets(prs, email) : i <= j
    ELSE 0

(* Where("email = ? AND token = ?").First(&pr) *)
FirstPasswordReset(prs, email, token) ==
    LET rows == {i \in VisiblePasswordResets(prs, email) : prs[i].token = token}
    IN  IF rows # {} THEN CHOOSE i \in rows : \A j \in rows : i <= j ELSE 0

checkPasswordResetExist(prs, email, token, dbErr) ==
    IF dbErr THEN [exist |-> FALSE, err |-> "StorageFailure"]
    ELSE [exist |-> \E i \in DOMAIN prs :
                        ~prs[i].deleted /\ prs[i].email = email /\ prs[i].token = token,
          err |-> "nil"]

(* CheckPasswordResetExpire that counts the last second as expired *)
CheckPasswordResetExpire_Early(prs, email, token, t, dbErr) ==
    LET i == FirstPasswordReset(prs, email, token)
    IN  IF dbErr THEN [expired |-> FALSE, err |-> "StorageFailure"]
        ELSE IF i = 0 THEN [expired |-> FALSE, err |-> "ErrRecordNotFound"]
        ELSE [expired |-> t - prs[i].createdAt >= PasswordResetRecordExpiryTime, err |-> "nil"]

(* Every error of First, record-not-found included, is returned: the       *)
(* ErrRecordNotFound test that follows the err != nil return is never true *)
CheckPasswordResetExpire(prs, email, token, t, dbErr) ==
    LET i == FirstPasswordReset(prs, email, token)
    IN  IF dbErr THEN [expired |-> FALSE, err |-> "StorageFailure"]
        ELSE IF i = 0 THEN [expired |-> FALSE, err |-> "ErrRecordNotFound"]
        ELSE [expired |-> t - prs[i].createdAt > PasswordResetRecordExpiryTime, err |-> "nil"]

ValidateFaults == {"none", "count", "first"}

ValidateEmailAndToken(prs, email, token, t, fault) ==
    LET e == checkPasswordResetExist(prs, email, token, fault = "count")
        x == CheckPasswordResetExpire(prs, email, token, t, fault = "first")
    IN  IF e.err # "nil" THEN [valid |-> FALSE, err |-> e.err]
        ELSE IF x.err # "nil" THEN [valid |-> FALSE, err |-> x.err]
        ELSE [valid |-> e.exist /\ ~x.expired, err |-> "nil"]

(* a DELETE that removes nothing *)
DeletePasswordResetRecord_Noop(prs, email, token) == prs

DeletePasswordResetRecord(prs, email, token) ==
    [i \in DOMAIN prs |->
        IF prs[i].email = email /\ prs[i].token = token
        THEN [prs[i] EXCEPT !.deleted = TRUE] ELSE prs[i]]

GetPasswordReset(prs, email) ==
    LET i == FirstPasswordResetByEmail(prs, email)
    IN  IF i = 0 THEN NoPasswordReset ELSE prs[i]

CheckPasswordResetEmailExist(prs, email) ==
    \E i \in DOMAIN prs : ~prs[i].deleted /\ prs[i].email = email

(* CheckPasswordResetEmailExpire that counts the last second as expired *)
CheckPasswordResetEmailExpire_Early(prs, email, t) ==
    LET pr == GetPasswordReset(prs, email)
        expired == t - pr.createdAt >= PasswordResetRecordExpiryTime
    IN  IF pr = NoPasswordReset THEN [expired |-> TRUE, prs |-> prs]
        ELSE IF expired
             THEN [expired |-> TRUE, prs |-> DeletePasswordResetRecord(prs, email, pr.token)]
        ELSE [expired |-> FALSE, prs |-> prs]

(* the record of the email is expired (or absent); an expired one is deleted *)
CheckPasswordResetEmailExpire(prs, email, t) ==
    LET pr == GetPasswordReset(prs, email)
        expired == t - pr.createdAt > PasswordResetRecordExpiryTime
    IN  IF pr = NoPasswordReset THEN [expired |-> TRUE, prs |-> prs]
        ELSE IF expired
             THEN [expired |-> TRUE, prs |-> DeletePasswordResetRecord(prs, email, pr.token)]
        ELSE [expired |-> FALSE, prs |-> prs]

(* a count that finds a user for every email *)
EmailExist_Always(us, email) == TRUE

EmailExist(us, email) == \E u \in DOMAIN us : ~us[u].deleted /\ us[u].email = email

(* util.GenerateRandomString: 128 bytes of crypto/rand, a string that no   *)
(* row holds yet                                                           *)
GenerateRandomString(prs) == ResetTokens \ {prs[i].token : i \in DOMAIN prs}

(* PasswordService.ResetPassword whose UPDATE changes no row *)
ResetPasswordSvc_KeepHash(us, email, password, salt, fault) ==
    LET usr == FindUserByEmail(us, email)
    IN  IF fault = "getByEmail" THEN [err |-> "StorageFailure", users |-> us]
        ELSE IF usr = NoUser THEN [err |-> "ErrRecordNotFound", users |-> us]
        ELSE IF fault = "update" THEN [err |-> "StorageFailure", users |-> us]
        ELSE IF fault = "findByID" THEN [err |-> "StorageFailure", users |-> us]
        ELSE [err |-> "nil", users |-> us]

(* PasswordService.ResetPassword: hash, GetByEmail, UserService.Update     *)
(* (its transaction, then FindByID on the committed row)                   *)
ResetPasswordSvc(us, email, password, salt, fault) ==
    LET newHashedPassword == HashPassword(password, salt)
        usr == FindUserByEmail(us, email)
        us1 == [us EXCEPT ![usr].password = newHashedPassword]
    IN  IF fault = "getByEmail" THEN [err |-> "StorageFailure", users |-> us]
        ELSE IF usr = NoUser THEN [err |-> "ErrRecordNotFound", users |-> us]
        ELSE IF fault = "update" THEN [err |-> "StorageFailure", users |-> us]
        ELSE IF fault = "findByID" THEN [err |-> "StorageFailure", users |-> us1]
        ELSE [err |-> "nil", users |-> us1]

----------------------------------------------------------------------------
(* The handlers of /password *)

(* handler.ValidatePasswordReset *)
ValidatePasswordResetResult(prs, email, token, t, fault) ==
    LET v == ValidateEmailAndToken(prs, email, token, t, fault)
    IN  IF v.err # "nil"
        THEN [status |-> StatusInternalServerError, valid |-> FALSE, err |-> v.err]
        ELSE [status |-> StatusOK, valid |-> v.valid, err |-> "nil"]

ExpireFaults == {"none", "first", "delete"}

(* handler.CheckPasswordResetExpire that keeps the expired record *)
CheckPasswordResetExpireResult_KeepExpired(prs, email, token, t, fault) ==
    LET x == CheckPasswordResetExpire(prs, email, token, t, fault = "first")
        failed(e) == [status |-> StatusInternalServerError, expired |-> FALSE, err |-> e,
                      prs |-> prs]
    IN  IF x.err # "nil" THEN failed(x.err)
        ELSE IF x.expired /\ fault = "delete" THEN failed("StorageFailure")
        ELSE [status |-> StatusOK, expired |-> x.expired, err |-> "nil", prs |-> prs]

(* handler.CheckPasswordResetExpire: an expired record is deleted *)
CheckPasswordResetExpireResult(prs, email, token, t, fault) ==
    LET x == CheckPasswordResetExpire(prs, email, token, t, fault = "first")
        failed(e) == [status |-> StatusInternalServerError, expired |-> FALSE, err |-> e,
                      prs |-> prs]
    IN  IF x.err # "nil" THEN failed(x.err)
        ELSE IF x.expired /\ fault = "delete" THEN failed("StorageFailure")
        ELSE [status |-> StatusOK, expired |-> x.expired, err |-> "nil",
              prs |-> IF x.expired THEN DeletePasswordResetRecord(prs, email, token) ELSE prs]

ResetFaults == {"none", "validate", "getByEmail", "update", "findByID", "delete"}

(* handler.ResetPassword that undoes the password change when the DELETE   *)
(* of the record fails                                                     *)
ResetPasswordResult_UndoOnDeleteFailure(db, t, email, token, password, salt, fault) ==
    LET v == ValidateEmailAndToken(db.passwordResets, email, token, t,
                                   IF fault = "validate" THEN "count" ELSE "none")
        rp == ResetPasswordSvc(db.users, email, password, salt, fault)
        db1 == [db EXCEPT !.users = rp.users]
        db2 == [db1 EXCEPT !.passwordResets =
                    DeletePasswordResetRecord(db1.passwordResets, email, token)]
    IN  IF v.err # "nil" THEN [status |-> StatusInternalServerError, err |-> v.err, db |-> db]
        ELSE IF ~v.valid
             THEN [status |-> StatusBadRequest, err |-> "InvalidEmailOrToken", db |-> db]
        ELSE IF rp.err # "nil"
             THEN [status |-> StatusInternalServerError, err |-> rp.err, db |-> db1]
        ELSE IF fault = "delete"
             THEN [status |-> StatusInternalServerError, err |-> "StorageFailure", db |-> db]
        ELSE [status |-> StatusOK, err |-> "nil", db |-> db2]

(* handler.ResetPassword: validate, change the password, delete the record; *)
(* the three are separate statements, each committed as it runs.           *)
ResetPasswordResult(db, t, email, token, password, salt, fault) ==
    LET v == ValidateEmailAndToken(db.passwordResets, email, token, t,
                                   IF fault = "validate" THEN "count" ELSE "none")
        rp == ResetPasswordSvc(db.users, email, password, salt, fault)
        db1 == [db EXCEPT !.users = rp.users]
        db2 == [db1 EXCEPT !.passwordResets =
                    DeletePasswordResetRecord(db1.passwordResets, email, token)]
    IN  IF v.err # "nil" THEN [status |-> StatusInternalServerError, err |-> v.err, db |-> db]
        ELSE IF ~v.valid
             THEN [status |-> StatusBadRequest, err |-> "InvalidEmailOrToken", db |-> db]
        ELSE IF rp.err # "nil"
             THEN [status |-> StatusInternalServerError, err |-> rp.err, db |-> db1]
        ELSE IF fault = "delete"
             THEN [status |-> StatusInternalServerError, err |-> "StorageFailure", db |-> db1]
        ELSE [status |-> StatusOK, err |-> "nil", db |-> db2]

CreateFaults == {"none", "get", "delete", "create", "send"}

(* handler.createNewPasswordReset: the record of the email, if any, is     *)
(* deleted, a record with a fresh token is created and mailed.             *)
createNewPasswordReset(prs, email, token, t, fault) ==
    LET prOld == GetPasswordReset(prs, email)
        prs1 == IF prOld.email # <<>>
                THEN DeletePasswordResetRecord(prs, prOld.email, prOld.token) ELSE prs
        prs2 == Append(prs1, [email |-> email, token |-> token, createdAt |-> t,
                              deleted |-> FALSE])
        failed(q) == [status |-> StatusInternalServerError, err |-> "StorageFailure",
                      sent |-> "", prs |-> q]
    IN  IF fault = "get" THEN failed(prs)
        ELSE IF prOld.email # <<>> /\ fault = "delete" THEN failed(prs)
        ELSE IF fault = "create" THEN failed(prs1)
        ELSE IF fault = "send" THEN failed(prs2)
        ELSE [status |-> StatusCreated, err |-> "nil", sent |-> token, prs |-> prs2]

(* handler.CreatePasswordReset that stamps the record again when it mails   *)
(* the token of an unexpired record                                        *)
CreatePasswordResetResult_ResendRefreshes(db, t, email, token, fault) ==
    LET prs == db.passwordResets
        x == CheckPasswordResetEmailExpire(prs, email, t)
        pr == GetPasswordReset(prs, email)
        failed == [status |-> StatusInternalServerError, err |-> "StorageFailure",
                   sent |-> "", prs |-> prs]
    IN  IF email = <<>>
        THEN [status |-> StatusBadRequest, err |-> "EmailRequired", sent |-> "", prs |-> prs]
        ELSE IF ~EmailExist(db.users, email)
             THEN [status |-> StatusOK, err |-> "nil", sent |-> "", prs |-> prs]
        ELSE IF ~CheckPasswordResetEmailExist(prs, email)
             THEN createNewPasswordReset(prs, email, token, t, fault)
        ELSE IF x.expired THEN createNewPasswordReset(x.prs, email, token, t, fault)
        ELSE IF fault = "get" THEN failed
        ELSE IF fault = "send" THEN failed
        ELSE [status |-> StatusCreated, err |-> "nil", sent |-> pr.token,
              prs |-> [i \in DOMAIN prs |->
                          IF ~prs[i].deleted /\ prs[i].email = email
                          THEN [prs[i] EXCEPT !.createdAt = t] ELSE prs[i]]]

(* handler.CreatePasswordReset *)
CreatePasswordResetResult(db, t, email, token, fault) ==
    LET prs == db.passwordResets
        x == CheckPasswordResetEmailExpire(prs, email, t)
        pr == GetPasswordReset(prs, email)
        failed == [status |-> StatusInternalServerError, err |-> "StorageFailure",
                   sent |-> "", prs |-> prs]
    IN  IF email = <<>>
        THEN [status |-> StatusBadRequest, err |-> "EmailRequired", sent |-> "", prs |-> prs]
        ELSE IF ~EmailExist(db.users, email)
             THEN [status |-> StatusOK, err |-> "nil", sent |-> "", prs |-> prs]
        ELSE IF ~CheckPasswordResetEmailExist(prs, email)
             THEN createNewPasswordReset(prs, email, token, t, fault)
        ELSE IF x.expired THEN createNewPasswordReset(x.prs, email, token, t, fault)
        ELSE IF fault = "get" THEN failed
        ELSE IF fault = "send" THEN failed
        ELSE [status |-> StatusCreated, err |-> "nil", sent |-> pr.token, prs |-> prs]

----------------------------------------------------------------------------
(* package util: the HTTP code tests and SliceFilter.  A value passed as   *)
(* interface{} is its kind and, for a slice, its elements; alias tells     *)
(* whether a returned slice is the argument itself.                        *)

IsHTTPCodeClientErr(code) ==
    LET errCodeStart == 400
        errCodeEnd == 499
    IN  code > errCodeStart /\ code < errCodeEnd

IsHTTPCodeServerErr(code) ==
    LET errCodeStart == 500
        errCodeEnd == 599
    IN  code > errCodeStart /\ code < errCodeEnd

NilValue == [kind |-> "nil", elems |-> <<>>, alias |-> FALSE]

SliceOf(elems) == [kind |-> "slice", elems |-> elems, alias |-> FALSE]

(* the SlicePredicateCallback values of the callers; i is the index of el, *)
(* from 0                                                                  *)
Callbacks == {"nil", "false", "gt1", "evenIndex"}

Callback(cb, el, i) ==
    CASE cb = "false" -> FALSE
      [] cb = "gt1" -> el > 1
      [] cb = "evenIndex" -> i % 2 = 0

(* the loop of SliceFilter from index i on, newSlice holding what passed *)
RECURSIVE SliceFilterLoop(_, _, _, _)
SliceFilterLoop(elems, cb, i, newSlice) ==
    IF i < Len(elems)
    THEN LET el == elems[i + 1]
             pass == Callback(cb, el, i)
         IN  SliceFilterLoop(elems, cb, i + 1,
                             IF pass THEN Append(newSlice, el) ELSE newSlice)
    ELSE newSlice

(* SliceFilter whose loop starts at the second element *)
SliceFilter_FromSecond(slice, cb) ==
    IF slice.kind # "slice" THEN NilValue
    ELSE IF cb = "nil" THEN [slice EXCEPT !.alias = TRUE]
    ELSE SliceOf(SliceFilterLoop(slice.elems, cb, 1, <<>>))

SliceFilter(slice, cb) ==
    IF slice.kind # "slice" THEN NilValue
    ELSE IF cb = "nil" THEN [slice EXCEPT !.alias = TRUE]
    ELSE SliceOf(SliceFilterLoop(slice.elems, cb, 0, <<>>))

----------------------------------------------------------------------------
(* The state machine *)

NoCall ==
    [op |-> "none", token |-> NoToken, email |-> <<>>, password |-> "", isLongLiveToken |-> FALSE,
     fault |-> "none", err |-> "nil", access |-> NoToken, refresh |-> NoToken,
     status |-> 0, ctxUser |-> NoUser, ctxTeam |-> NoTeam, next |-> FALSE, chain |-> <<>>,
     lineID |-> "", wasRevoked |-> FALSE, resetToken |-> "", valid |-> FALSE,
     expired |-> FALSE, sent |-> "", roleID |-> "", name |-> "", teamID |-> NoTeam,
     permIDs |-> <<>>, userID |-> NoUser, permName |-> "", has |-> FALSE,
     code |-> 0, slice |-> NilValue, cb |-> "nil", out |-> NilValue]

ReqIDs == 1..MaxReqs

NoReq == [op |-> "idle", pc |-> "idle", token |-> NoToken, afterLogOut |-> FALSE,
          usr |-> NoUser, fault |-> FALSE, err |-> "nil", access |-> NoToken]

InitUsers ==
    [u \in UserIDs |->
        [email |-> <<LowerLetters[u]>>,
         password |-> HashPassword("pw" \o ToString(u), "salt" \o ToString(u)),
         organizationID |-> u,
         roleID |-> IF u = 1 THEN NoRole ELSE "role-" \o ToString(u),
         lineID |-> IF u = 1 THEN "line-1" ELSE "",
         deleted |-> FALSE]]

InitRoles ==
    [r \in {"role-" \o ToString(u) : u \in UserIDs \ {1}} |->
        [name |-> RoleAdmin,
         teamID |-> CHOOSE u \in UserIDs : r = "role-" \o ToString(u),
         deleted |-> FALSE]]

Init ==
    /\ users = InitUsers
    /\ roles = InitRoles
    /\ rolePermissions = {<<r, p>> : r \in DOMAIN InitRoles, p \in AllPermissions}
    /\ refreshTokens = <<>>
    /\ activityLogs = <<>>
    /\ passwordResets = <<>>
    /\ now = 1
    /\ issued = {}
    /\ last = NoCall
    /\ reqs = [r \in ReqIDs |-> NoReq]

(* Tokens a client can present: those LogIn or the last RefreshToken       *)
(* returned, and one signed with another key.                              *)
ClientTokens ==
    UNION {{ts.access, ts.refresh} : ts \in issued}
        \cup (IF last.op = "RefreshToken" /\ last.err = "nil" THEN {last.access} ELSE {})
        \cup {ForgedToken}

(* The successful calls in a row, up to the last one, that were about the  *)
(* refresh token tok (a login is about the refresh token it returns); only *)
(* the latest MaxChain of them are kept.                                   *)
Chain(tok) ==
    IF last.err = "nil" /\ last.op \in {"LogIn", "LogInByLine"} /\ last.refresh = tok
    THEN <<last.op>>
    ELSE IF last.err = "nil" /\ last.op \in {"RefreshToken", "LogOut"} /\ last.token = tok
         THEN (IF Len(last.chain) < MaxChain THEN Append(last.chain, last.op)
               ELSE Append(Tail(last.chain), last.op))
    ELSE <<>>

(* The first refresh_tokens row of a token is revoked *)
StoredRevoked(tok) ==
    /\ FirstRefreshToken(refreshTokens, tok) # 0
    /\ refreshTokens[FirstRefreshToken(refreshTokens, tok)].revoked

LoginEmails == {<<"a">>, <<"A">>, <<"b">>, <<"c">>}

LineIDs == {"line-1", "line-x"}

SetDB(db) ==
    /\ users' = db.users
    /\ roles' = db.roles
    /\ rolePermissions' = db.rolePermissions
    /\ refreshTokens' = db.refreshTokens
    /\ activityLogs' = db.activityLogs
    /\ passwordResets' = db.passwordResets

LogIn(email, password, isLongLiveToken, fault) ==
    /\ Len(activityLogs) < MaxLogs
    /\ LET res == LogInResult(DB, now, email, password, isLongLiveToken, fault)
       IN  /\ SetDB(res.db)
           /\ issued' = IF res.err = "nil"
                        THEN issued \cup {[access |-> res.access, refresh |-> res.refresh]}
                        ELSE issued
           /\ last' = [NoCall EXCEPT !.op = "LogIn", !.email = email, !.password = password,
                          !.isLongLiveToken = isLongLiveToken, !.fault = fault,
                          !.err = res.err, !.access = res.access, !.refresh = res.refresh]
    /\ UNCHANGED <<now, reqs>>

LogInByLine(lineID, fault) ==
    /\ Len(activityLogs) < MaxLogs
    /\ LET res == LogInByLineResult(DB, now, lineID, fault)
       IN  /\ SetDB(res.db)
           /\ issued' = IF res.err = "nil"
                        THEN issued \cup {[access |-> res.access, refresh |-> res.refresh]}
                        ELSE issued
           /\ last' = [NoCall EXCEPT !.op = "LogInByLine", !.lineID = lineID, !.fault = fault,
                          !.err = res.err, !.access = res.access, !.refresh = res.refresh]
    /\ UNCHANGED <<now, reqs>>

RefreshToken(tok, fault) ==
    /\ LET res == RefreshTokenResult(refreshTokens, tok, now, fault)
       IN  /\ last' = [NoCall EXCEPT !.op = "RefreshToken", !.token = tok, !.fault = fault,
                          !.err = res.err, !.access = res.access, !.chain = Chain(tok)]
    /\ UNCHANGED <<users, passwordResets, roles, rolePermissions, refreshTokens, activityLogs, now, issued, reqs>>

LogOut(tok, fault) ==
    /\ Len(activityLogs) < MaxLogs
    /\ LET res == LogOutResult(DB, tok, now, fault)
       IN  /\ SetDB(res.db)
           /\ last' = [NoCall EXCEPT !.op = "LogOut", !.token = tok, !.fault = fault,
                          !.err = res.err, !.chain = Chain(tok),
                          !.wasRevoked = StoredRevoked(tok)]
    /\ UNCHANGED <<now, issued, reqs>>

AuthRequired(tok, fault) ==
    /\ LET res == AuthRequiredResult(users, tok, now, fault)
       IN  last' = [NoCall EXCEPT !.op = "AuthRequired", !.token = tok, !.fault = fault,
                       !.status = res.status, !.ctxUser = res.ctxUser, !.ctxTeam = res.ctxTeam,
                       !.next = res.next]
    /\ UNCHANGED <<users, passwordResets, roles, rolePermissions, refreshTokens, activityLogs, now, issued,
                   reqs>>

Tick(d) ==
    /\ now + d <= MaxClock
    /\ now' = now + d
    /\ last' = [NoCall EXCEPT !.op = "Tick"]
    /\ UNCHANGED <<users, passwordResets, roles, rolePermissions, refreshTokens, activityLogs, issued,
                   reqs>>

Next ==
    \/ \E email \in LoginEmails, password \in Passwords, isLongLiveToken \in BOOLEAN,
          fault \in LogInFaults : LogIn(email, password, isLongLiveToken, fault)
    \/ \E lineID \in LineIDs, fault \in LogInByLineFaults : LogInByLine(lineID, fault)
    \/ \E tok \in ClientTokens, fault \in RefreshFaults : RefreshToken(tok, fault)
    \/ \E tok \in ClientTokens, fault \in LogOutFaults : LogOut(tok, fault)
    \/ \E tok \in ClientTokens \cup {NoToken}, fault \in AuthFaults : AuthRequired(tok, fault)
    \/ \E d \in TickSteps : Tick(d)

Spec == Init /\ [][Next]_vars

----------------------------------------------------------------------------
(* Password reset: the handlers of /password, the clock moving by the      *)
(* expiry time and by one second more.                                     *)

CreatePasswordReset(email, token, fault) ==
    /\ Len(passwordResets) < MaxResets
    /\ token \in GenerateRandomString(passwordResets)
    /\ LET res == CreatePasswordResetResult(DB, now, email, token, fault)
       IN  /\ passwordResets' = res.prs
           /\ last' = [NoCall EXCEPT !.op = "CreatePasswordReset", !.email = email,
                          !.fault = fault, !.status = res.status, !.err = res.err,
                          !.sent = res.sent]
    /\ UNCHANGED <<users, roles, rolePermissions, refreshTokens, activityLogs, now, issued,
                   reqs>>

ValidatePasswordReset(email, token, fault) ==
    /\ LET res == ValidatePasswordResetResult(passwordResets, email, token, now, fault)
       IN  last' = [NoCall EXCEPT !.op = "ValidatePasswordReset", !.email = email,
                       !.resetToken = token, !.fault = fault, !.status = res.status,
                       !.err = res.err, !.valid = res.valid]
    /\ UNCHANGED <<users, passwordResets, roles, rolePermissions, refreshTokens, activityLogs,
                   now, issued, reqs>>

CheckPasswordResetExpireReq(email, token, fault) ==
    /\ LET res == CheckPasswordResetExpireResult(passwordResets, email, token, now, fault)
       IN  /\ passwordResets' = res.prs
           /\ last' = [NoCall EXCEPT !.op = "CheckPasswordResetExpire", !.email = email,
                          !.resetToken = token, !.fault = fault, !.status = res.status,
                          !.err = res.err, !.expired = res.expired]
    /\ UNCHANGED <<users, roles, rolePermissions, refreshTokens, activityLogs, now, issued,
                   reqs>>

ResetPassword(email, token, password, salt, fault) ==
    /\ LET res == ResetPasswordResult(DB, now, email, token, password, salt, fault)
       IN  /\ SetDB(res.db)
           /\ last' = [NoCall EXCEPT !.op = "ResetPassword", !.email = email,
                          !.resetToken = token, !.password = password, !.fault = fault,
                          !.status = res.status, !.err = res.err]
    /\ UNCHANGED <<now, issued, reqs>>

TickReset(d) ==
    /\ now + d <= MaxResetClock
    /\ now' = now + d
    /\ last' = [NoCall EXCEPT !.op = "Tick"]
    /\ UNCHANGED <<users, passwordResets, roles, rolePermissions, refreshTokens, activityLogs,
                   issued, reqs>>

NextReset ==
    \/ \E email \in ResetEmails, token \in ResetTokens, fault \in CreateFaults :
            CreatePasswordReset(email, token, fault)
    \/ \E email \in ResetEmails, token \in ResetTokens, fault \in ValidateFaults :
            ValidatePasswordReset(email, token, fault)
    \/ \E email \in ResetEmails, token \in ResetTokens, fault \in ExpireFaults :
            CheckPasswordResetExpireReq(email, token, fault)
    \/ \E email \in ResetEmails, token \in ResetTokens, password \in Passwords,
          salt \in ResetSalts, fault \in ResetFaults :
            ResetPassword(email, token, password, salt, fault)
    \/ \E d \in ResetTickSteps : TickReset(d)

SpecReset == Init /\ [][NextReset]_vars

----------------------------------------------------------------------------
(* A store in which every user predates the roles: no user has a role_id   *)
(* and no role exists.                                                     *)

InitLegacy ==
    /\ users = [u \in UserIDs |-> [InitUsers[u] EXCEPT !.roleID = NoRole]]
    /\ roles = <<>>
    /\ rolePermissions = {}
    /\ refreshTokens = <<>>
    /\ activityLogs = <<>>
    /\ passwordResets = <<>>
    /\ now = 1
    /\ issued = {}
    /\ last = NoCall
    /\ reqs = [r \in ReqIDs |-> NoReq]

NextLegacy ==
    \/ \E email \in LoginEmails, password \in Passwords, isLongLiveToken \in BOOLEAN,
          fault \in LogInFaults : LogIn(email, password, isLongLiveToken, fault)
    \/ \E lineID \in LineIDs, fault \in LogInByLineFaults : LogInByLine(lineID, fault)
    \/ \E d \in TickSteps : Tick(d)

SpecLegacy == InitLegacy /\ [][NextLegacy]_vars

----------------------------------------------------------------------------
(* Concurrent requests: LogOut and RefreshToken run one statement at a     *)
(* time, each statement committed on its own (LogOut opens no transaction; *)
(* RefreshToken runs a single query).  The store starts as LogIn leaves it.*)

FirstLogIn(isLongLiveToken) ==
    LogInResult([users |-> InitUsers, roles |-> InitRoles,
                 rolePermissions |-> {<<r, p>> : r \in DOMAIN InitRoles, p \in AllPermissions},
                 refreshTokens |-> <<>>, activityLogs |-> <<>>, passwordResets |-> <<>>],
                1, <<"a">>, "pw1", isLongLiveToken, "none")

InitConc ==
    LET res == FirstLogIn(FALSE)
    IN  /\ users = res.db.users
        /\ roles = res.db.roles
        /\ rolePermissions = res.db.rolePermissions
        /\ refreshTokens = res.db.refreshTokens
        /\ activityLogs = res.db.activityLogs
        /\ passwordResets = res.db.passwordResets
        /\ now = 1
        /\ issued = {[access |-> res.access, refresh |-> res.refresh]}
        /\ last = [NoCall EXCEPT !.op = "LogIn", !.email = <<"a">>, !.password = "pw1",
                      !.err = res.err, !.access = res.access, !.refresh = res.refresh]
        /\ reqs = [r \in ReqIDs |-> NoReq]

(* The tokens LogIn returned *)
IssuedTokens == UNION {{ts.access, ts.refresh} : ts \in issued}

Done(r, err, access) ==
    [reqs EXCEPT ![r].pc = "done", ![r].err = err, ![r].access = access]

(* a LogOut of the token has returned nil *)
LoggedOut(tok) ==
    \E q \in ReqIDs :
        reqs[q].op = "LogOut" /\ reqs[q].pc = "done" /\ reqs[q].err = "nil" /\ reqs[q].token = tok

(* Requests take the slots in order: which slot a request gets is immaterial *)
NextSlot(r) ==
    /\ reqs[r].op = "idle"
    /\ \A q \in ReqIDs : q < r => reqs[q].op # "idle"

StartLogOut(r, tok) ==
    /\ NextSlot(r)
    /\ reqs' = [reqs EXCEPT ![r] = [NoReq EXCEPT !.op = "LogOut", !.pc = "update", !.token = tok]]
    /\ UNCHANGED <<users, passwordResets, roles, rolePermissions, refreshTokens, activityLogs, now, issued, last>>

LogOutUpdate(r, fail) ==
    /\ reqs[r].op = "LogOut" /\ reqs[r].pc = "update"
    /\ IF fail
       THEN /\ reqs' = Done(r, "StorageFailure", NoToken)
            /\ UNCHANGED refreshTokens
       ELSE /\ refreshTokens' = RevokeRefreshToken(refreshTokens, reqs[r].token)
            /\ reqs' = [reqs EXCEPT ![r].pc = "getByToken"]
    /\ UNCHANGED <<users, passwordResets, roles, rolePermissions, activityLogs, now, issued, last>>

LogOutGetByToken(r, fail) ==
    /\ reqs[r].op = "LogOut" /\ reqs[r].pc = "getByToken"
    /\ LET usr == GetByToken(users, reqs[r].token, now, fail)
       IN  reqs' = IF usr.err # "nil" THEN Done(r, usr.err, NoToken)
                   ELSE [reqs EXCEPT ![r].pc = "createLog", ![r].usr = usr.user]
    /\ UNCHANGED <<users, passwordResets, roles, rolePermissions, refreshTokens, activityLogs, now, issued, last>>

LogOutCreateLog(r, fail) ==
    /\ reqs[r].op = "LogOut" /\ reqs[r].pc = "createLog"
    /\ IF fail
       THEN /\ reqs' = Done(r, "StorageFailure", NoToken)
            /\ UNCHANGED activityLogs
       ELSE /\ Len(activityLogs) < MaxConcLogs
            /\ activityLogs' = Append(activityLogs,
                                      [userID |-> reqs[r].usr, activityType |-> ActTypeLogout])
            /\ reqs' = Done(r, "nil", NoToken)
    /\ UNCHANGED <<users, passwordResets, roles, rolePermissions, refreshTokens, now, issued, last>>

StartRefreshToken(r, tok) ==
    /\ NextSlot(r)
    /\ reqs' = [reqs EXCEPT ![r] = [NoReq EXCEPT !.op = "RefreshToken", !.pc = "find",
                                       !.token = tok, !.afterLogOut = LoggedOut(tok)]]
    /\ UNCHANGED <<users, passwordResets, roles, rolePermissions, refreshTokens, activityLogs, now, issued, last>>

RefreshTokenFind(r, fail) ==
    /\ reqs[r].op = "RefreshToken" /\ reqs[r].pc = "find"
    /\ LET res == RefreshTokenResult(refreshTokens, reqs[r].token, now,
                                     IF fail THEN "find" ELSE "none")
       IN  reqs' = [Done(r, res.err, res.access) EXCEPT ![r].fault = fail]
    /\ UNCHANGED <<users, passwordResets, roles, rolePermissions, refreshTokens, activityLogs, now, issued, last>>

TickConc(d) ==
    /\ now + d <= MaxClock
    /\ now' = now + d
    /\ UNCHANGED <<users, passwordResets, roles, rolePermissions, refreshTokens, activityLogs, issued, last, reqs>>

NextConc ==
    \/ \E r \in ReqIDs, tok \in IssuedTokens : StartLogOut(r, tok)
    \/ \E r \in ReqIDs, fail \in BOOLEAN : LogOutUpdate(r, fail)
    \/ \E r \in ReqIDs, fail \in BOOLEAN : LogOutGetByToken(r, fail)
    \/ \E r \in ReqIDs, fail \in BOOLEAN : LogOutCreateLog(r, fail)
    \/ \E r \in ReqIDs, tok \in IssuedTokens : StartRefreshToken(r, tok)
    \/ \E r \in ReqIDs, fail \in BOOLEAN : RefreshTokenFind(r, fail)
    \/ \E d \in TickSteps : TickConc(d)

SpecConc == InitConc /\ [][NextConc]_vars

----------------------------------------------------------------------------
(* Concurrent /password requests.  The handlers open no transaction        *)
(* (WithContext only), so each query is committed on its own and the       *)
(* queries of different requests interleave.                               *)

ResetReqIDs == 1..MaxResetReqs

NoResetReq == [op |-> "idle", pc |-> "idle", email |-> <<>>, resetToken |-> "",
               password |-> "", exist |-> FALSE, prToken |-> "", status |-> 0, sent |-> ""]

InitResetConc ==
    /\ users = InitUsers
    /\ roles = InitRoles
    /\ rolePermissions = {<<r, p>> : r \in DOMAIN InitRoles, p \in AllPermissions}
    /\ refreshTokens = <<>>
    /\ activityLogs = <<>>
    /\ passwordResets = <<>>
    /\ now = 1
    /\ issued = {}
    /\ last = NoCall
    /\ reqs = [r \in ResetReqIDs |-> NoResetReq]

NextResetSlot(r) ==
    /\ reqs[r].op = "idle"
    /\ \A q \in ResetReqIDs : q < r => reqs[q].op # "idle"

Respond(r, status) == [reqs EXCEPT ![r].pc = "done", ![r].status = status]

(* GET /password/password-reset?email= *)
StartCreatePasswordReset(r, email) ==
    /\ NextResetSlot(r)
    /\ reqs' = [reqs EXCEPT ![r] = [NoResetReq EXCEPT !.op = "CreatePasswordReset",
                                       !.pc = "emailExist", !.email = email]]
    /\ UNCHANGED <<users, passwordResets, roles, rolePermissions, refreshTokens, activityLogs,
                   now, issued, last>>

CreateEmailExist(r) ==
    /\ reqs[r].op = "CreatePasswordReset" /\ reqs[r].pc = "emailExist"
    /\ reqs' = IF EmailExist(users, reqs[r].email)
               THEN [reqs EXCEPT ![r].pc = "prEmailExist"]
               ELSE Respond(r, StatusOK)
    /\ UNCHANGED <<users, passwordResets, roles, rolePermissions, refreshTokens, activityLogs,
                   now, issued, last>>

CreateCheckEmailExist(r) ==
    /\ reqs[r].op = "CreatePasswordReset" /\ reqs[r].pc = "prEmailExist"
    /\ LET prEmailExist == CheckPasswordResetEmailExist(passwordResets, reqs[r].email)
       IN  reqs' = [reqs EXCEPT ![r].exist = prEmailExist,
                                ![r].pc = IF prEmailExist THEN "emailExpire" ELSE "getOld"]
    /\ UNCHANGED <<users, passwordResets, roles, rolePermissions, refreshTokens, activityLogs,
                   now, issued, last>>

(* the First of CheckPasswordResetEmailExpire *)
CreateCheckEmailExpire(r) ==
    /\ reqs[r].op = "CreatePasswordReset" /\ reqs[r].pc = "emailExpire"
    /\ LET pr == GetPasswordReset(passwordResets, reqs[r].email)
           expired == now - pr.createdAt > PasswordResetRecordExpiryTime
       IN  reqs' = IF pr = NoPasswordReset THEN [reqs EXCEPT ![r].pc = "getOld"]
                   ELSE IF expired
                        THEN [reqs EXCEPT ![r].pc = "expireDelete", ![r].prToken = pr.token]
                   ELSE [reqs EXCEPT ![r].pc = "useExisting"]
    /\ UNCHANGED <<users, passwordResets, roles, rolePermissions, refreshTokens, activityLogs,
                   now, issued, last>>

(* the DELETE of CheckPasswordResetEmailExpire *)
CreateExpireDelete(r) ==
    /\ reqs[r].op = "CreatePasswordReset" /\ reqs[r].pc = "expireDelete"
    /\ passwordResets' = DeletePasswordResetRecord(passwordResets, reqs[r].email,
                                                   reqs[r].prToken)
    /\ reqs' = [reqs EXCEPT ![r].pc = "getOld"]
    /\ UNCHANGED <<users, roles, rolePermissions, refreshTokens, activityLogs, now, issued,
                   last>>

(* the record has not expired: read it again and mail it *)
CreateUseExisting(r) ==
    /\ reqs[r].op = "CreatePasswordReset" /\ reqs[r].pc = "useExisting"
    /\ LET pr == GetPasswordReset(passwordResets, reqs[r].email)
       IN  reqs' = [Respond(r, StatusCreated) EXCEPT ![r].sent = pr.token]
    /\ UNCHANGED <<users, passwordResets, roles, rolePermissions, refreshTokens, activityLogs,
                   now, issued, last>>

(* createNewPasswordReset: GetPasswordReset *)
CreateGetOld(r) ==
    /\ reqs[r].op = "CreatePasswordReset" /\ reqs[r].pc = "getOld"
    /\ LET prOld == GetPasswordReset(passwordResets, reqs[r].email)
       IN  reqs' = IF prOld.email # <<>>
                   THEN [reqs EXCEPT ![r].pc = "deleteOld", ![r].prToken = prOld.token]
                   ELSE [reqs EXCEPT ![r].pc = "insert"]
    /\ UNCHANGED <<users, passwordResets, roles, rolePermissions, refreshTokens, activityLogs,
                   now, issued, last>>

(* createNewPasswordReset: DeletePasswordResetRecord of the old record *)
CreateDeleteOld(r) ==
    /\ reqs[r].op = "CreatePasswordReset" /\ reqs[r].pc = "deleteOld"
    /\ passwordResets' = DeletePasswordResetRecord(passwordResets, reqs[r].email,
                                                   reqs[r].prToken)
    /\ reqs' = [reqs EXCEPT ![r].pc = "insert"]
    /\ UNCHANGED <<users, roles, rolePermissions, refreshTokens, activityLogs, now, issued,
                   last>>

(* createPasswordReset, then the mail *)
CreateInsert(r, token) ==
    /\ reqs[r].op = "CreatePasswordReset" /\ reqs[r].pc = "insert"
    /\ Len(passwordResets) < MaxResets
    /\ token \in GenerateRandomString(passwordResets)
    /\ passwordResets' = Append(passwordResets,
                                [email |-> reqs[r].email, token |-> token, createdAt |-> now,
                                 deleted |-> FALSE])
    /\ reqs' = [Respond(r, StatusCreated) EXCEPT ![r].sent = token]
    /\ UNCHANGED <<users, roles, rolePermissions, refreshTokens, activityLogs, now, issued,
                   last>>

(* GET /password/validate-password-reset and PATCH /password/password both *)
(* begin with ValidateEmailAndToken                                        *)
StartValidate(r, op, email, token, password) ==
    /\ NextResetSlot(r)
    /\ reqs' = [reqs EXCEPT ![r] = [NoResetReq EXCEPT !.op = op, !.pc = "exist",
                                       !.email = email, !.resetToken = token,
                                       !.password = password]]
    /\ UNCHANGED <<users, passwordResets, roles, rolePermissions, refreshTokens, activityLogs,
                   now, issued, last>>

ValidateExist(r) ==
    /\ reqs[r].op \in {"ValidatePasswordReset", "ResetPassword"} /\ reqs[r].pc = "exist"
    /\ LET e == checkPasswordResetExist(passwordResets, reqs[r].email, reqs[r].resetToken,
                                        FALSE)
       IN  reqs' = [reqs EXCEPT ![r].exist = e.exist, ![r].pc = "expire"]
    /\ UNCHANGED <<users, passwordResets, roles, rolePermissions, refreshTokens, activityLogs,
                   now, issued, last>>

ValidateExpire(r) ==
    /\ reqs[r].op \in {"ValidatePasswordReset", "ResetPassword"} /\ reqs[r].pc = "expire"
    /\ LET x == CheckPasswordResetExpire(passwordResets, reqs[r].email, reqs[r].resetToken,
                                         now, FALSE)
           valid == reqs[r].exist /\ ~x.expired
       IN  reqs' = IF x.err # "nil" THEN Respond(r, StatusInternalServerError)
                   ELSE IF reqs[r].op = "ValidatePasswordReset" THEN Respond(r, StatusOK)
                   ELSE IF ~valid THEN Respond(r, StatusBadRequest)
                   ELSE [reqs EXCEPT ![r].pc = "update"]
    /\ UNCHANGED <<users, passwordResets, roles, rolePermissions, refreshTokens, activityLogs,
                   now, issued, last>>

ResetUpdate(r, salt) ==
    /\ reqs[r].op = "ResetPassword" /\ reqs[r].pc = "update"
    /\ LET rp == ResetPasswordSvc(users, reqs[r].email, reqs[r].password, salt, "none")
       IN  /\ users' = rp.users
           /\ reqs' = IF rp.err # "nil" THEN Respond(r, StatusInternalServerError)
                      ELSE [reqs EXCEPT ![r].pc = "delete"]
    /\ UNCHANGED <<passwordResets, roles, rolePermissions, refreshTokens, activityLogs, now,
                   issued, last>>

ResetDelete(r) ==
    /\ reqs[r].op = "ResetPassword" /\ reqs[r].pc = "delete"
    /\ passwordResets' = DeletePasswordResetRecord(passwordResets, reqs[r].email,
                                                   reqs[r].resetToken)
    /\ reqs' = Respond(r, StatusOK)
    /\ UNCHANGED <<users, roles, rolePermissions, refreshTokens, activityLogs, now, issued,
                   last>>

(* GET /password/check-password-reset-expire *)
StartCheckExpire(r, email, token) ==
    /\ NextResetSlot(r)
    /\ reqs' = [reqs EXCEPT ![r] = [NoResetReq EXCEPT !.op = "CheckPasswordResetExpire",
                                       !.pc = "first", !.email = email,
                                       !.resetToken = token]]
    /\ UNCHANGED <<users, passwordResets, roles, rolePermissions, refreshTokens, activityLogs,
                   now, issued, last>>

CheckExpireFirst(r) ==
    /\ reqs[r].op = "CheckPasswordResetExpire" /\ reqs[r].pc = "first"
    /\ LET x == CheckPasswordResetExpire(passwordResets, reqs[r].email, reqs[r].resetToken,
                                         now, FALSE)
       IN  reqs' = IF x.err # "nil" THEN Respond(r, StatusInternalServerError)
                   ELSE IF x.expired THEN [reqs EXCEPT ![r].pc = "delete"]
                   ELSE Respond(r, StatusOK)
    /\ UNCHANGED <<users, passwordResets, roles, rolePermissions, refreshTokens, activityLogs,
                   now, issued, last>>

CheckExpireDelete(r) ==
    /\ reqs[r].op = "CheckPasswordResetExpire" /\ reqs[r].pc = "delete"
    /\ passwordResets' = DeletePasswordResetRecord(passwordResets, reqs[r].email,
                                                   reqs[r].resetToken)
    /\ reqs' = Respond(r, StatusOK)
    /\ UNCHANGED <<users, roles, rolePermissions, refreshTokens, activityLogs, now, issued,
                   last>>

TickResetConc(d) ==
    /\ now + d <= MaxResetClock
    /\ now' = now + d
    /\ UNCHANGED <<users, passwordResets, roles, rolePermissions, refreshTokens, activityLogs,
                   issued, last, reqs>>

NextResetConc ==
    \/ \E r \in ResetReqIDs, email \in ResetEmails : StartCreatePasswordReset(r, email)
    \/ \E r \in ResetReqIDs : CreateEmailExist(r)
    \/ \E r \in ResetReqIDs : CreateCheckEmailExist(r)
    \/ \E r \in ResetReqIDs : CreateCheckEmailExpire(r)
    \/ \E r \in ResetReqIDs : CreateExpireDelete(r)
    \/ \E r \in ResetReqIDs : CreateUseExisting(r)
    \/ \E r \in ResetReqIDs : CreateGetOld(r)
    \/ \E r \in ResetReqIDs : CreateDeleteOld(r)
    \/ \E r \in ResetReqIDs, token \in ResetTokens : CreateInsert(r, token)
    \/ \E r \in ResetReqIDs, op \in {"ValidatePasswordReset", "ResetPassword"},
          email \in ResetEmails, token \in ResetTokens, password \in Passwords :
            StartValidate(r, op, email, token, password)
    \/ \E r \in ResetReqIDs : ValidateExist(r)
    \/ \E r \in ResetReqIDs : ValidateExpire(r)
    \/ \E r \in ResetReqIDs, salt \in ResetSalts : ResetUpdate(r, salt)
    \/ \E r \in ResetReqIDs : ResetDelete(r)
    \/ \E r \in ResetReqIDs, email \in ResetEmails, token \in ResetTokens :
            StartCheckExpire(r, email, token)
    \/ \E r \in ResetReqIDs : CheckExpireFirst(r)
    \/ \E r \in ResetReqIDs : CheckExpireDelete(r)
    \/ \E d \in ResetTickSteps : TickResetConc(d)

SpecResetConc == InitResetConc /\ [][NextResetConc]_vars

(* The same requests over a store that holds the reset record one          *)
(* CreatePasswordReset for email a has left                                *)
InitResetRace ==
    /\ users = InitUsers
    /\ roles = InitRoles
    /\ rolePermissions = {<<r, p>> : r \in DOMAIN InitRoles, p \in AllPermissions}
    /\ refreshTokens = <<>>
    /\ activityLogs = <<>>
    /\ passwordResets = CreatePasswordResetResult(
                            [users |-> InitUsers, roles |-> InitRoles, rolePermissions |-> {},
                             refreshTokens |-> <<>>, activityLogs |-> <<>>,
                             passwordResets |-> <<>>], 1, <<"a">>, "t1", "none").prs
    /\ now = 1
    /\ issued = {}
    /\ last = NoCall
    /\ reqs = [r \in ResetReqIDs |-> NoResetReq]

SpecResetRace == InitResetRace /\ [][NextResetConc]_vars

----------------------------------------------------------------------------
(* Roles and permissions.  A deleted roles row keeps its place with        *)
(* deleted set (gorm.DeletedAt); role_permissions rows carry no such mark. *)

(* The names under which the routes ask for the permissions of the catalog *)
PermUserRead == "user:read"
PermUserUpdate == "user:update"

PermissionName(p) == IF p = "perm-read" THEN PermUserRead ELSE PermUserUpdate

(* Permission ids a request can carry: those of the catalog and one that   *)
(* is a well-formed id of no permission                                    *)
PermIDLists == {<<"perm-read">>, <<"perm-read", "perm-update">>, <<"perm-read", "perm-x">>,
                <<"perm-x">>}

(* Requests that pass the binding of model.RoleReqBody: a name other than  *)
(* Admin, at least one permission id                                       *)
TeamIDs == UserIDs
RoleTeamIDs == {2}
RoleNames == {"Viewer"}
RoleReqIDs == {"role-2", "role-3", "role-x"}
PermNames == {PermUserRead, PermUserUpdate}
NewUserEmails == {<<"c">>, <<"A">>}

(* First(&tmpRole) with Where(&model.Role{ID: id}) *)
FirstRole(rs, id) == IF id \in DOMAIN rs /\ ~rs[id].deleted THEN id ELSE "nil"

(* Model(&model.Permission{}).Where("id IN (?)", permIDs).Count(&count) *)
CountPermissions(permIDs) ==
    Cardinality({p \in AllPermissions : \E i \in DOMAIN permIDs : permIDs[i] = p})

(* the role_permissions rows that link the role to the listed permissions *)
PermissionLinks(id, permIDs) == {<<id, permIDs[i]>> : i \in DOMAIN permIDs}

CreateRoleFaults == {"none", "count", "create"}

(* RoleService.Create: the role arrives without an ID and is inserted      *)
(* under the zero value; a second insert under it is a duplicate key.      *)
RoleServiceCreate(db, teamID, name, permIDs, fault) ==
    LET id == ZeroRoleID
        role == [name |-> name, teamID |-> teamID, deleted |-> FALSE]
        db1 == [db EXCEPT
                    !.roles = [r \in DOMAIN db.roles \cup {id} |->
                                    IF r = id THEN role ELSE db.roles[r]],
                    !.rolePermissions = db.rolePermissions \cup PermissionLinks(id, permIDs)]
    IN  IF fault = "count" THEN [err |-> "StorageFailure", db |-> db]
        ELSE IF CountPermissions(permIDs) # Len(permIDs)
             THEN [err |-> "ErrPermissionNotFound", db |-> db]
        ELSE IF fault = "create" \/ id \in DOMAIN db.roles
             THEN [err |-> "StorageFailure", db |-> db]
        ELSE [err |-> "nil", db |-> db1]

(* RoleHandler.Create without the binding of the request body *)
RoleCreateResult_NoBinding(db, teamID, name, permIDs, fault) ==
    LET res == RoleServiceCreate(db, teamID, name, permIDs, fault)
    IN  IF res.err = "ErrPermissionNotFound"
        THEN [status |-> StatusNotFound, err |-> res.err, db |-> res.db]
        ELSE IF res.err # "nil"
             THEN [status |-> StatusInternalServerError, err |-> res.err, db |-> res.db]
        ELSE [status |-> StatusCreated, err |-> "nil", db |-> res.db]

(* RoleHandler.Create: ShouldBindJSON refuses the name Admin (binding       *)
(* "required,ne=Admin") before the service is called                       *)
RoleCreateResult(db, teamID, name, permIDs, fault) ==
    LET res == RoleServiceCreate(db, teamID, name, permIDs, fault)
    IN  IF name = RoleAdmin
        THEN [status |-> StatusBadRequest, err |-> "ValidationError", db |-> db]
        ELSE IF res.err = "ErrPermissionNotFound"
        THEN [status |-> StatusNotFound, err |-> res.err, db |-> res.db]
        ELSE IF res.err # "nil"
             THEN [status |-> StatusInternalServerError, err |-> res.err, db |-> res.db]
        ELSE [status |-> StatusCreated, err |-> "nil", db |-> res.db]

UpdateRoleFaults == {"none", "first", "count", "save"}

(* RoleService.Update that saves the role and its links before it counts   *)
(* the permissions, and returns without a rollback                         *)
RoleServiceUpdate_SaveBeforeCount(db, roleID, teamID, name, permIDs, fault) ==
    LET tmpRole == FirstRole(db.roles, roleID)
        db1 == [db EXCEPT
                    !.roles[roleID] = [name |-> name, teamID |-> teamID, deleted |-> FALSE],
                    !.rolePermissions =
                        {rp \in db.rolePermissions : rp[1] # roleID}
                            \cup {l \in PermissionLinks(roleID, permIDs) :
                                        l[2] \in AllPermissions}]
    IN  IF fault = "first" THEN [err |-> "StorageFailure", db |-> db]
        ELSE IF tmpRole = "nil" THEN [err |-> "ErrRoleNotFound", db |-> db]
        ELSE IF db.roles[tmpRole].name = RoleAdmin
             THEN [err |-> "ErrAdminRoleCannotBeModified", db |-> db]
        ELSE IF fault = "count" THEN [err |-> "StorageFailure", db |-> db]
        ELSE IF fault = "save" THEN [err |-> "StorageFailure", db |-> db]
        ELSE IF CountPermissions(permIDs) # Len(permIDs)
             THEN [err |-> "ErrPermissionNotFound", db |-> db1]
        ELSE [err |-> "nil", db |-> db1]

(* RoleService.Update: every write is inside the transaction, which is     *)
(* rolled back when a write or the commit fails                            *)
RoleServiceUpdate(db, roleID, teamID, name, permIDs, fault) ==
    LET tmpRole == FirstRole(db.roles, roleID)
        db1 == [db EXCEPT
                    !.roles[roleID] = [name |-> name, teamID |-> teamID, deleted |-> FALSE],
                    !.rolePermissions =
                        {rp \in db.rolePermissions : rp[1] # roleID}
                            \cup PermissionLinks(roleID, permIDs)]
    IN  IF fault = "first" THEN [err |-> "StorageFailure", db |-> db]
        ELSE IF tmpRole = "nil" THEN [err |-> "ErrRoleNotFound", db |-> db]
        ELSE IF db.roles[tmpRole].name = RoleAdmin
             THEN [err |-> "ErrAdminRoleCannotBeModified", db |-> db]
        ELSE IF fault = "count" THEN [err |-> "StorageFailure", db |-> db]
        ELSE IF CountPermissions(permIDs) # Len(permIDs)
             THEN [err |-> "ErrPermissionNotFound", db |-> db]
        ELSE IF fault = "save"
             THEN [err |-> "StorageFailure", db |-> db]
        ELSE [err |-> "nil", db |-> db1]

(* RoleHandler.Update: the same binding as Create *)
RoleUpdateResult(db, roleID, teamID, name, permIDs, fault) ==
    LET res == RoleServiceUpdate(db, roleID, teamID, name, permIDs, fault)
    IN  IF name = RoleAdmin
        THEN [status |-> StatusBadRequest, err |-> "ValidationError", db |-> db]
        ELSE IF res.err = "ErrAdminRoleCannotBeModified"
        THEN [status |-> StatusConflict, err |-> res.err, db |-> res.db]
        ELSE IF res.err \in {"ErrRoleNotFound", "ErrPermissionNotFound"}
             THEN [status |-> StatusNotFound, err |-> res.err, db |-> res.db]
        ELSE IF res.err # "nil"
             THEN [status |-> StatusInternalServerError, err |-> res.err, db |-> res.db]
        ELSE [status |-> StatusOK, err |-> "nil", db |-> res.db]

DeleteRoleFaults == {"none", "first", "delete"}

(* RoleService.DeleteByID without the test of the name *)
RoleServiceDeleteByID_AnyName(db, roleID, fault) ==
    LET tmpRole == FirstRole(db.roles, roleID)
    IN  IF fault = "first" THEN [err |-> "StorageFailure", db |-> db]
        ELSE IF tmpRole = "nil" THEN [err |-> "ErrRoleNotFound", db |-> db]
        ELSE IF fault = "delete" THEN [err |-> "StorageFailure", db |-> db]
        ELSE [err |-> "nil", db |-> [db EXCEPT !.roles[roleID].deleted = TRUE]]

(* RoleService.DeleteByID: Delete(&model.Role{ID: roleID}) marks the roles *)
(* row deleted and touches no other table                                  *)
RoleServiceDeleteByID(db, roleID, fault) ==
    LET tmpRole == FirstRole(db.roles, roleID)
    IN  IF fault = "first" THEN [err |-> "StorageFailure", db |-> db]
        ELSE IF tmpRole = "nil" THEN [err |-> "ErrRoleNotFound", db |-> db]
        ELSE IF db.roles[tmpRole].name = RoleAdmin
             THEN [err |-> "ErrAdminRoleCannotBeModified", db |-> db]
        ELSE IF fault = "delete" THEN [err |-> "StorageFailure", db |-> db]
        ELSE [err |-> "nil", db |-> [db EXCEPT !.roles[roleID].deleted = TRUE]]

(* RoleHandler.Delete *)
RoleDeleteResult(db, roleID, fault) ==
    LET res == RoleServiceDeleteByID(db, roleID, fault)
    IN  IF res.err = "ErrRoleNotFound"
        THEN [status |-> StatusNotFound, err |-> res.err, db |-> res.db]
        ELSE IF res.err = "ErrAdminRoleCannotBeModified"
             THEN [status |-> StatusBadRequest, err |-> res.err, db |-> res.db]
        ELSE IF res.err # "nil"
             THEN [status |-> StatusInternalServerError, err |-> res.err, db |-> res.db]
        ELSE [status |-> StatusNoContent, err |-> "nil", db |-> res.db]

CreateUserFaults == {"none", "create"}

(* UserService.CreateUserToTeam and its handler: the role must be a live   *)
(* role of the team; users.email is unique                                  *)
CreateUserToTeamResult(db, teamID, email, roleID, salt, fault) ==
    LET id == Cardinality(DOMAIN db.users) + 1
        usr == [email |-> ToLower(email), password |-> HashPassword("", salt),
                organizationID |-> teamID, roleID |-> roleID, lineID |-> "",
                deleted |-> FALSE]
        roleExists == /\ FirstRole(db.roles, roleID) # "nil"
                      /\ db.roles[roleID].teamID = teamID
        db1 == [db EXCEPT !.users = [u \in DOMAIN db.users \cup {id} |->
                                        IF u = id THEN usr ELSE db.users[u]]]
    IN  IF ~roleExists
        THEN [status |-> StatusNotFound, err |-> "ErrRoleNotFound", db |-> db]
        ELSE IF \E u \in DOMAIN db.users : db.users[u].email = ToLower(email)
             THEN [status |-> StatusConflict, err |-> "ErrDuplicateUserEmail", db |-> db]
        ELSE IF fault = "create"
             THEN [status |-> StatusInternalServerError, err |-> "StorageFailure", db |-> db]
        ELSE [status |-> StatusCreated, err |-> "nil", db |-> db1]

(* roles JOIN users JOIN role_permissions JOIN permissions: Model(&Role{}) *)
(* leaves deleted roles out; the joined tables are taken as they are       *)
PermissionJoin(db, userID, permName) ==
    {rp \in db.rolePermissions :
        /\ FirstRole(db.roles, rp[1]) # "nil"
        /\ userID \in DOMAIN db.users
        /\ db.users[userID].roleID = rp[1]
        /\ PermissionName(rp[2]) = permName}

HasPermissionFaults == {"none", "count"}

(* HasPermission whose join does not leave deleted roles out *)
UserServiceHasPermission_DeletedRoles(db, userID, permName, fault) ==
    IF fault = "count" THEN [has |-> FALSE, err |-> "StorageFailure"]
    ELSE [has |-> Cardinality({rp \in db.rolePermissions :
                                    /\ userID \in DOMAIN db.users
                                    /\ db.users[userID].roleID = rp[1]
                                    /\ PermissionName(rp[2]) = permName}) = 1,
          err |-> "nil"]

UserServiceHasPermission(db, userID, permName, fault) ==
    IF fault = "count" THEN [has |-> FALSE, err |-> "StorageFailure"]
    ELSE [has |-> Cardinality(PermissionJoin(db, userID, permName)) = 1, err |-> "nil"]

(* A store with a role an admin has made for team 2, under an id of its own *)
InitRole ==
    /\ users = InitUsers
    /\ roles = [r \in DOMAIN InitRoles \cup {"role-3"} |->
                    IF r = "role-3" THEN [name |-> "Editor", teamID |-> 2, deleted |-> FALSE]
                    ELSE InitRoles[r]]
    /\ rolePermissions = {<<r, p>> : r \in DOMAIN InitRoles, p \in AllPermissions}
                            \cup {<<"role-3", "perm-read">>}
    /\ refreshTokens = <<>>
    /\ activityLogs = <<>>
    /\ passwordResets = <<>>
    /\ now = 1
    /\ issued = {}
    /\ last = NoCall
    /\ reqs = [r \in ReqIDs |-> NoReq]

RoleCreate(teamID, name, permIDs, fault) ==
    /\ LET res == RoleCreateResult(DB, teamID, name, permIDs, fault)
       IN  /\ SetDB(res.db)
           /\ last' = [NoCall EXCEPT !.op = "RoleCreate", !.teamID = teamID, !.name = name,
                          !.permIDs = permIDs, !.fault = fault, !.status = res.status,
                          !.err = res.err]
    /\ UNCHANGED <<now, issued, reqs>>

RoleUpdate(roleID, teamID, name, permIDs, fault) ==
    /\ LET res == RoleUpdateResult(DB, roleID, teamID, name, permIDs, fault)
       IN  /\ SetDB(res.db)
           /\ last' = [NoCall EXCEPT !.op = "RoleUpdate", !.roleID = roleID,
                          !.teamID = teamID, !.name = name, !.permIDs = permIDs,
                          !.fault = fault, !.status = res.status, !.err = res.err]
    /\ UNCHANGED <<now, issued, reqs>>

RoleDelete(teamID, roleID, fault) ==
    /\ LET res == RoleDeleteResult(DB, roleID, fault)
       IN  /\ SetDB(res.db)
           /\ last' = [NoCall EXCEPT !.op = "RoleDelete", !.teamID = teamID,
                          !.roleID = roleID, !.fault = fault,
                          !.status = res.status, !.err = res.err]
    /\ UNCHANGED <<now, issued, reqs>>

CreateUserToTeam(teamID, email, roleID, salt, fault) ==
    /\ Cardinality(DOMAIN users) < MaxUsers
    /\ LET res == CreateUserToTeamResult(DB, teamID, email, roleID, salt, fault)
       IN  /\ SetDB(res.db)
           /\ last' = [NoCall EXCEPT !.op = "CreateUserToTeam", !.teamID = teamID,
                          !.email = email, !.roleID = roleID, !.fault = fault,
                          !.status = res.status, !.err = res.err]
    /\ UNCHANGED <<now, issued, reqs>>

HasPermission(userID, permName, fault) ==
    /\ LET res == UserServiceHasPermission(DB, userID, permName, fault)
       IN  last' = [NoCall EXCEPT !.op = "HasPermission", !.userID = userID,
                       !.permName = permName, !.fault = fault, !.err = res.err,
                       !.has = res.has]
    /\ UNCHANGED <<users, passwordResets, roles, rolePermissions, refreshTokens, activityLogs,
                   now, issued, reqs>>

NextRole ==
    \/ \E teamID \in RoleTeamIDs, name \in RoleNames, permIDs \in PermIDLists,
          fault \in CreateRoleFaults :
            RoleCreate(teamID, name, permIDs, fault)
    \/ \E roleID \in RoleReqIDs, teamID \in RoleTeamIDs, name \in RoleNames,
          permIDs \in PermIDLists, fault \in UpdateRoleFaults :
            RoleUpdate(roleID, teamID, name, permIDs, fault)
    \/ \E teamID \in RoleTeamIDs, roleID \in RoleReqIDs, fault \in DeleteRoleFaults :
            RoleDelete(teamID, roleID, fault)
    \/ \E teamID \in TeamIDs, email \in NewUserEmails, roleID \in RoleReqIDs,
          salt \in ResetSalts, fault \in CreateUserFaults :
            CreateUserToTeam(teamID, email, roleID, salt, fault)
    \/ \E userID \in 1..MaxUsers, permName \in PermNames, fault \in HasPermissionFaults :
            HasPermission(userID, permName, fault)

SpecRole == InitRole /\ [][NextRole]_vars

----------------------------------------------------------------------------
(* Users: sign-up, CreateUserToTeam, GetOrCreateUser and Update.           *)

(* Emails as requests carry them *)
UserEmails == {<<"a">>, <<"A">>, <<"c">>, <<"C">>}

(* The unique index of users.email covers deleted rows too; the column     *)
(* compares without regard to case (the default collation of the store)    *)
EmailTaken(us, email) == \E u \in DOMAIN us : ToLower(us[u].email) = ToLower(email)

(* AUTO_INCREMENT of users.id and of teams.id *)
NextUserID(us) == Cardinality(DOMAIN us) + 1
NextTeamID(us) ==
    1 + (CHOOSE m \in {us[u].organizationID : u \in DOMAIN us} :
            \A u \in DOMAIN us : us[u].organizationID <= m)

InsertUser(us, usr) ==
    [u \in DOMAIN us \cup {NextUserID(us)} |-> IF u \in DOMAIN us THEN us[u] ELSE usr]

SignUpFaults == {"none", "createRole", "createUser", "commit"}

(* UserService.Create: a new team, its Admin role under a new UUID with    *)
(* every permission, and the user with the email in lower case, in one     *)
(* transaction                                                             *)
UserServiceCreate(db, email, password, salt, fault) ==
    LET teamID == NextTeamID(db.users)
        roleID == "role-" \o ToString(NextUserID(db.users))
        role == [name |-> RoleAdmin, teamID |-> teamID, deleted |-> FALSE]
        usr == [email |-> ToLower(email), password |-> HashPassword(password, salt),
                organizationID |-> teamID, roleID |-> roleID, lineID |-> "",
                deleted |-> FALSE]
        db1 == [db EXCEPT
                    !.roles = [r \in DOMAIN db.roles \cup {roleID} |->
                                    IF r = roleID THEN role ELSE db.roles[r]],
                    !.rolePermissions =
                        db.rolePermissions \cup {<<roleID, p>> : p \in AllPermissions},
                    !.users = InsertUser(db.users, usr)]
    IN  IF fault = "createRole" THEN [err |-> "StorageFailure", db |-> db]
        ELSE IF fault = "createUser" \/ EmailTaken(db.users, email)
             THEN [err |-> "StorageFailure", db |-> db]
        ELSE IF fault = "commit" THEN [err |-> "StorageFailure", db |-> db]
        ELSE [err |-> "nil", db |-> db1]

GetOrCreateFaults == {"none", "firstOrCreate"}

(* UserService.GetOrCreateUser: FirstOrCreate looks the user up under the  *)
(* lower-case email and, finding none, inserts the struct as it was built: *)
(* the email and the password as given, no team, no role                   *)
GetOrCreateUser(db, email, pwd, fault) ==
    LET found == \E u \in DOMAIN db.users :
                    ~db.users[u].deleted /\ ToLower(db.users[u].email) = ToLower(email)
        usr == [email |-> email, password |-> [salt |-> "none", digest |-> <<"plain", pwd>>],
                organizationID |-> NoTeam, roleID |-> NoRole, lineID |-> "",
                deleted |-> FALSE]
    IN  IF fault = "firstOrCreate" THEN [err |-> "StorageFailure", db |-> db]
        ELSE IF found THEN [err |-> "nil", db |-> db]
        ELSE IF EmailTaken(db.users, email) THEN [err |-> "StorageFailure", db |-> db]
        ELSE [err |-> "nil", db |-> [db EXCEPT !.users = InsertUser(db.users, usr)]]

UpdateUserFaults == {"none", "update", "findByID"}

(* UserHandler.Update with an email in the body: the handler copies the    *)
(* email into the update map as it came, UserService.Update commits the    *)
(* UPDATE and reads the row back                                           *)
UserUpdateResult(db, userID, email, fault) ==
    LET taken == \E u \in DOMAIN db.users :
                    u # userID /\ ToLower(db.users[u].email) = ToLower(email)
        db1 == [db EXCEPT !.users[userID].email = email]
        failed(d) == [status |-> StatusInternalServerError, err |-> "StorageFailure",
                      db |-> d]
    IN  IF fault = "update" \/ taken THEN failed(db)
        ELSE IF FindUserByID(db.users, userID) = NoUser
             THEN [status |-> StatusInternalServerError, err |-> "ErrRecordNotFound",
                   db |-> db]
        ELSE IF fault = "findByID" THEN failed(db1)
        ELSE [status |-> StatusOK, err |-> "nil", db |-> db1]

SignUp(email, password, salt, fault) ==
    /\ Cardinality(DOMAIN users) < MaxUsers
    /\ LET res == UserServiceCreate(DB, email, password, salt, fault)
       IN  /\ SetDB(res.db)
           /\ last' = [NoCall EXCEPT !.op = "SignUp", !.email = email, !.fault = fault,
                          !.err = res.err]
    /\ UNCHANGED <<now, issued, reqs>>

GetOrCreate(email, pwd, fault) ==
    /\ Cardinality(DOMAIN users) < MaxUsers
    /\ LET res == GetOrCreateUser(DB, email, pwd, fault)
       IN  /\ SetDB(res.db)
           /\ last' = [NoCall EXCEPT !.op = "GetOrCreateUser", !.email = email,
                          !.fault = fault, !.err = res.err]
    /\ UNCHANGED <<now, issued, reqs>>

UserUpdate(userID, email, fault) ==
    /\ FindUserByID(users, userID) # NoUser
    /\ LET res == UserUpdateResult(DB, userID, email, fault)
       IN  /\ SetDB(res.db)
           /\ last' = [NoCall EXCEPT !.op = "UserUpdate", !.userID = userID, !.email = email,
                          !.fault = fault, !.status = res.status, !.err = res.err]
    /\ UNCHANGED <<now, issued, reqs>>

NextUser ==
    \/ \E email \in UserEmails, password \in Passwords, salt \in ResetSalts,
          fault \in SignUpFaults :
            SignUp(email, password, salt, fault)
    \/ \E teamID \in TeamIDs, email \in UserEmails, roleID \in RoleReqIDs,
          salt \in ResetSalts, fault \in CreateUserFaults :
            CreateUserToTeam(teamID, email, roleID, salt, fault)
    \/ \E email \in UserEmails, pwd \in Passwords, fault \in GetOrCreateFaults :
            GetOrCreate(email, pwd, fault)
    \/ \E userID \in 1..MaxUsers, email \in UserEmails, fault \in UpdateUserFaults :
            UserUpdate(userID, email, fault)

SpecUser == Init /\ [][NextUser]_vars

----------------------------------------------------------------------------
(* Teams and their roles: sign-up, LogIn and the role endpoints called by  *)
(* principals of either team.                                              *)

(* the seeded role that is not Admin *)
RoleEditor == "role-e"

TeamRoleNames == {"Viewer", RoleAdmin}
TeamPermIDLists == {<<"perm-update">>, <<"perm-read", "perm-read">>, <<"perm-x">>}
TeamRoleReqIDs == {"role-2", RoleEditor, "role-x"}
TeamLogInFaults == {"none", "saveUser"}
TeamSignUpFaults == {"none", "createUser"}
TeamRoleFaults == {"none"}
TeamEmails == {<<"a">>, <<"c">>}
TeamPasswords == {"pw1"}

InitTeam ==
    /\ users = InitUsers
    /\ roles = [r \in DOMAIN InitRoles \cup {RoleEditor} |->
                    IF r = RoleEditor
                    THEN [name |-> "Editor", teamID |-> 2, deleted |-> FALSE]
                    ELSE InitRoles[r]]
    /\ rolePermissions = {<<r, p>> : r \in DOMAIN InitRoles, p \in AllPermissions}
                            \cup {<<RoleEditor, "perm-read">>}
    /\ refreshTokens = <<>>
    /\ activityLogs = <<>>
    /\ passwordResets = <<>>
    /\ now = 1
    /\ issued = {}
    /\ last = NoCall
    /\ reqs = [r \in ReqIDs |-> NoReq]

NextTeam ==
    \/ \E email \in TeamEmails, password \in TeamPasswords, salt \in ResetSalts,
          fault \in TeamSignUpFaults :
            SignUp(email, password, salt, fault)
    \/ \E email \in TeamEmails, password \in TeamPasswords, fault \in TeamLogInFaults :
            LogIn(email, password, FALSE, fault)
    \/ \E teamID \in TeamIDs, name \in TeamRoleNames, permIDs \in TeamPermIDLists,
          fault \in TeamRoleFaults :
            RoleCreate(teamID, name, permIDs, fault)
    \/ \E roleID \in TeamRoleReqIDs, teamID \in TeamIDs, name \in TeamRoleNames,
          permIDs \in TeamPermIDLists, fault \in TeamRoleFaults :
            RoleUpdate(roleID, teamID, name, permIDs, fault)
    \/ \E teamID \in TeamIDs, roleID \in TeamRoleReqIDs, fault \in TeamRoleFaults :
            RoleDelete(teamID, roleID, fault)

SpecTeam == InitTeam /\ [][NextTeam]_vars

----------------------------------------------------------------------------
(* Deleting users: DELETE /teams/:teamID/users/:userID, LogIn and the gate *)

DeleteUserFaults == {"none", "count", "delete"}

(* ids as the path carries them: ParseUint accepts 0 *)
DeleteUserIDs == 0..MaxUsers

DeleteEmails == {<<"a">>, <<"b">>}

(* Model(&model.User{}).Where(&model.User{ID: userID}).Count(&count): a    *)
(* zero ID is no condition, and every visible row is counted               *)
CountUsersByID(us, userID) ==
    IF userID = NoUser
    THEN Cardinality({u \in DOMAIN us : ~us[u].deleted})
    ELSE IF FindUserByID(us, userID) # NoUser THEN 1 ELSE 0

(* UserService.DeleteByID: count == 0 is tested before the error of the    *)
(* query; Delete(&model.User{ID: userID}) marks the row deleted, and with  *)
(* a zero ID has no condition and is refused (gorm.ErrMissingWhereClause)  *)
UserServiceDeleteByID(us, userID, fault) ==
    LET count == IF fault = "count" THEN 0 ELSE CountUsersByID(us, userID)
    IN  IF count = 0 THEN [err |-> "ErrUserNotFound", users |-> us]
        ELSE IF userID = NoUser THEN [err |-> "ErrMissingWhereClause", users |-> us]
        ELSE IF fault = "delete" THEN [err |-> "StorageFailure", users |-> us]
        ELSE [err |-> "nil", users |-> [us EXCEPT ![userID].deleted = TRUE]]

(* UserHandler.DeleteByID *)
UserDeleteResult(us, userID, fault) ==
    LET res == UserServiceDeleteByID(us, userID, fault)
    IN  IF res.err # "nil"
        THEN [status |-> StatusBadRequest, err |-> res.err, users |-> res.users]
        ELSE [status |-> StatusNoContent, err |-> "nil", users |-> res.users]

UserDelete(userID, fault) ==
    /\ LET res == UserDeleteResult(users, userID, fault)
       IN  /\ users' = res.users
           /\ last' = [NoCall EXCEPT !.op = "UserDelete", !.userID = userID, !.fault = fault,
                          !.status = res.status, !.err = res.err]
    /\ UNCHANGED <<passwordResets, roles, rolePermissions, refreshTokens, activityLogs, now,
                   issued, reqs>>

NextDelete ==
    \/ \E email \in DeleteEmails, password \in Passwords, fault \in TeamLogInFaults :
            LogIn(email, password, FALSE, fault)
    \/ \E userID \in DeleteUserIDs, fault \in DeleteUserFaults : UserDelete(userID, fault)
    \/ \E tok \in ClientTokens \cup {NoToken}, fault \in AuthFaults : AuthRequired(tok, fault)

SpecDelete == Init /\ [][NextDelete]_vars

----------------------------------------------------------------------------
(* package util: the functions applied to arguments chosen at the start    *)

MaxSliceLen == 3

SliceElems == {1, 2}

HTTPCodes == {399, 400, 401, 498, 499, 500, 501, 598, 599, 600}

Slices == UNION {[1..n -> SliceElems] : n \in 0..MaxSliceLen}

(* what a caller can pass as the slice: a slice, or a value of another kind *)
SliceArgs == {SliceOf(elems) : elems \in Slices}
                \cup {[kind |-> "int", elems |-> <<>>, alias |-> FALSE]}

InitUtil ==
    /\ users = InitUsers
    /\ roles = InitRoles
    /\ rolePermissions = {<<r, p>> : r \in DOMAIN InitRoles, p \in AllPermissions}
    /\ refreshTokens = <<>>
    /\ activityLogs = <<>>
    /\ passwordResets = <<>>
    /\ now = 1
    /\ issued = {}
    /\ last \in {[NoCall EXCEPT !.code = code, !.slice = slice, !.cb = cb] :
                    code \in HTTPCodes, slice \in SliceArgs, cb \in Callbacks}
    /\ reqs = [r \in ReqIDs |-> NoReq]

CallIsHTTPCodeClientErr ==
    /\ last.op = "none"
    /\ last' = [last EXCEPT !.op = "IsHTTPCodeClientErr",
                            !.has = IsHTTPCodeClientErr(last.code)]
    /\ UNCHANGED <<users, passwordResets, roles, rolePermissions, refreshTokens, activityLogs,
                   now, issued, reqs>>

CallIsHTTPCodeServerErr ==
    /\ last.op = "none"
    /\ last' = [last EXCEPT !.op = "IsHTTPCodeServerErr",
                            !.has = IsHTTPCodeServerErr(last.code)]
    /\ UNCHANGED <<users, passwordResets, roles, rolePermissions, refreshTokens, activityLogs,
                   now, issued, reqs>>

CallSliceFilter ==
    /\ last.op = "none"
    /\ last' = [last EXCEPT !.op = "SliceFilter", !.out = SliceFilter(last.slice, last.cb)]
    /\ UNCHANGED <<users, passwordResets, roles, rolePermissions, refreshTokens, activityLogs,
                   now, issued, reqs>>

NextUtil ==
    \/ CallIsHTTPCodeClientErr
    \/ CallIsHTTPCodeServerErr
    \/ CallSliceFilter

SpecUtil == InitUtil /\ [][NextUtil]_vars

----------------------------------------------------------------------------
(* Properties of the sequential handlers *)

(* C1: a RefreshToken call with a token whose stored record is revoked     *)
(* issues no access token and fails, with ErrRevokedToken (TokenRevoked)   *)
(* whenever the store answered the lookup.                                 *)
C1_RevokedNeverRefreshes ==
    (last.op = "RefreshToken" /\ StoredRevoked(last.token)) =>
        /\ last.access = NoToken
        /\ last.err # "nil"
        /\ (last.fault = "none" => last.err = "ErrRevokedToken")

(* LogIn, a successful RefreshToken, LogOut, then RefreshToken refused *)
C1_Witness ==
    /\ last.op = "RefreshToken"
    /\ last.err = "ErrRevokedToken"
    /\ last.chain = <<"LogIn", "RefreshToken", "LogOut">>
    /\ StoredRevoked(last.token)

(* C2: AuthRequired lets a request through only when the bearer token's    *)
(* type claim is access; a refresh token is answered 401 and no user is    *)
(* attached.                                                               *)
C2_AuthGateAccessOnly ==
    (last.op = "AuthRequired" /\ last.token.type = "refresh") =>
        /\ last.status = StatusUnauthorized
        /\ last.ctxUser = NoUser
        /\ ~last.next

(* C3: LogOut is atomic: a LogOut that appends no logout entry leaves the  *)
(* refresh_tokens rows as they were, and one that appends its entry leaves *)
(* the token's rows revoked.                                               *)
C3_LogOutAtomic ==
    [][last'.op = "LogOut" =>
        /\ (activityLogs' = activityLogs => refreshTokens' = refreshTokens)
        /\ (activityLogs' # activityLogs =>
                \A i \in DOMAIN refreshTokens' :
                    refreshTokens'[i].token = last'.token => refreshTokens'[i].revoked)]_vars

(* C4: LogIn is atomic: a failed LogIn leaves every table as it was and    *)
(* returns no token; a successful one appends exactly one unrevoked        *)
(* refresh_tokens row, holding the returned refresh token, and one login   *)
(* entry of the user.                                                      *)
C4_LogInAtomic ==
    [][last'.op = "LogIn" =>
        /\ (last'.err # "nil" =>
                /\ DB' = DB
                /\ issued' = issued
                /\ last'.access = NoToken
                /\ last'.refresh = NoToken)
        /\ (last'.err = "nil" =>
                /\ refreshTokens' =
                       Append(refreshTokens, [token |-> last'.refresh, revoked |-> FALSE])
                /\ activityLogs' =
                       Append(activityLogs, [userID |-> last'.refresh.id,
                                             activityType |-> ActTypeLogin]))]_vars

(* a LogIn of the user without a role failed at the log insert or at the   *)
(* commit, and neither the role nor the token row is in the store          *)
C4_Witness ==
    /\ last.op = "LogIn"
    /\ last.fault \in {"createLog", "commit"}
    /\ last.err = "StorageFailure"
    /\ ToLower(last.email) = users[1].email
    /\ users[1].roleID = NoRole
    /\ refreshTokens = <<>>
    /\ ZeroRoleID \notin DOMAIN roles

(* C6: LogOut with a token that has no refresh_tokens row fails with       *)
(* record-not-found (TokenNotFound), appends no ActivityLog entry and      *)
(* changes no refresh_tokens row.                                          *)
C6_LogOutUnknownToken ==
    [][(last'.op = "LogOut" /\ FirstRefreshToken(refreshTokens, last'.token) = 0) =>
        /\ last'.err = "ErrRecordNotFound"
        /\ activityLogs' = activityLogs
        /\ refreshTokens' = refreshTokens]_vars

(* C7: a LogIn with the email (in any letter case) and the password of a   *)
(* stored principal succeeds, and the access and the refresh token it      *)
(* returns parse to that principal's id with type access and refresh.      *)
C7_LogInTokenPair ==
    \A u \in UserIDs :
        (/\ last.op = "LogIn"
         /\ last.fault = "none"
         /\ ~users[u].deleted
         /\ users[u].email = ToLower(last.email)
         /\ CompareHashAndPassword(users[u].password, last.password)) =>
            /\ last.err = "nil"
            /\ ParseToken(last.access, now).err = "nil"
            /\ ParseToken(last.access, now).claims.id = u
            /\ ParseToken(last.access, now).claims.type = "access"
            /\ ParseToken(last.refresh, now).err = "nil"
            /\ ParseToken(last.refresh, now).claims.id = u
            /\ ParseToken(last.refresh, now).claims.type = "refresh"

(* a LogIn with the email in upper case succeeded *)
C7_Witness ==
    /\ last.op = "LogIn"
    /\ last.err = "nil"
    /\ last.email = <<"A">>
    /\ last.refresh.id = 1

CredentialInvalid == {"ErrRecordNotFound", "ErrMismatchedHashAndPassword"}

Refreshable(rts, tok, t) ==
    /\ FirstRefreshToken(rts, tok) # 0
    /\ ~rts[FirstRefreshToken(rts, tok)].revoked
    /\ tok.key = JwtSecretKey
    /\ tok.type = "refresh"
    /\ (tok.exp = NoExp \/ t <= tok.exp)

(* C9: RefreshToken changes no table; when it succeeds the access token is *)
(* for the subject of the refresh token; and (the lookup answered) it      *)
(* succeeds exactly when the token is stored unrevoked and unexpired, as   *)
(* often as it is called.                                                  *)
C9_RefreshFrame ==
    [][last'.op = "RefreshToken" =>
        /\ DB' = DB
        /\ (last'.err = "nil" =>
                /\ last'.access.id = last'.token.id
                /\ last'.access.type = "access"
                /\ last'.access.key = JwtSecretKey)
        /\ (last'.fault = "none" =>
                (last'.err = "nil" <=> Refreshable(refreshTokens, last'.token, now)))]_vars

(* the same refresh token was accepted twice in a row after its LogIn *)
C9_Witness ==
    /\ last.op = "RefreshToken"
    /\ last.err = "nil"
    /\ last.chain = <<"LogIn", "RefreshToken">>
    /\ last.access.id = last.token.id

(* C10 as stated: RefreshToken with a validly signed token that is not a   *)
(* refresh token fails with the wrong-token-type error.                    *)
C10_WrongPurposeError ==
    (/\ last.op = "RefreshToken"
     /\ last.fault = "none"
     /\ last.token.key = JwtSecretKey
     /\ last.token.type # "refresh") =>
        /\ last.err = "WrongTokenType"
        /\ last.access = NoToken

(* C10 amended: RefreshToken with a validly signed token that is not a     *)
(* refresh token fails and issues no access token; no such token has a     *)
(* refresh_tokens row, so the failure is the lookup's record-not-found.    *)
C10_NonRefreshRejected ==
    /\ \A i \in DOMAIN refreshTokens : refreshTokens[i].token.type = "refresh"
    /\ (/\ last.op = "RefreshToken"
        /\ last.token.key = JwtSecretKey
        /\ last.token.type # "refresh") =>
            /\ last.access = NoToken
            /\ last.err # "nil"
            /\ (last.fault = "none" => last.err = "ErrRecordNotFound")

(* the access token of a LogIn was presented to RefreshToken *)
C10_Witness ==
    /\ last.op = "RefreshToken"
    /\ last.token.type = "access"
    /\ last.token.key = JwtSecretKey
    /\ last.err = "ErrRecordNotFound"
    /\ \E ts \in issued : ts.access = last.token

(* C11: a revoked refresh_tokens row is still there, unchanged, after      *)
(* every step (LogIn, LogInByLine, RefreshToken, LogOut); and a LogOut of  *)
(* a token whose row is already revoked, the token still verifying and the *)
(* store answering, returns nil and leaves the row revoked.                *)
C11_RevokedTerminal ==
    [][/\ \A i \in DOMAIN refreshTokens :
            refreshTokens[i].revoked =>
                (i \in DOMAIN refreshTokens' /\ refreshTokens'[i] = refreshTokens[i])
       /\ (/\ last'.op = "LogOut"
           /\ last'.fault = "none"
           /\ StoredRevoked(last'.token)
           /\ ParseToken(last'.token, now).err = "nil") =>
                /\ last'.err = "nil"
                /\ \A i \in DOMAIN refreshTokens' :
                        refreshTokens'[i].token = last'.token => refreshTokens'[i].revoked]_vars

(* a LogOut of a token that an earlier LogOut had revoked returned nil *)
C11_Witness ==
    /\ last.op = "LogOut"
    /\ last.err = "nil"
    /\ last.wasRevoked
    /\ StoredRevoked(last.token)

(* The bearer token fails verification at the gate: none was sent, it is   *)
(* badly signed or expired, its type is not access, or its id is the id of *)
(* no user.                                                                *)
VerificationFails(tok, t) ==
    \/ tok = NoToken
    \/ ParseToken(tok, t).err # "nil"
    \/ tok.type # "access"
    \/ FindUserByID(users, tok.id) = NoUser

(* C12: AuthRequired answers every token verification failure with 401,    *)
(* and a storage failure met while serving a token that verifies with 500. *)
C12_AuthGateFailureKinds ==
    last.op = "AuthRequired" =>
        /\ VerificationFails(last.token, now) => last.status = StatusUnauthorized
        /\ (~VerificationFails(last.token, now) /\ last.fault # "none") =>
                last.status = StatusInternalServerError

(* C13: when AuthRequired lets the request through, the user and the       *)
(* user's team are in the request context; when it does not, the request   *)
(* is aborted with an error status and nothing is attached.                *)
C13_GateAttachesUserAndTeam ==
    last.op = "AuthRequired" =>
        /\ last.next =>
                /\ last.ctxUser # NoUser
                /\ last.ctxTeam = users[last.ctxUser].organizationID
        /\ ~last.next =>
                /\ last.status \in {StatusUnauthorized, StatusInternalServerError}
                /\ last.ctxUser = NoUser
                /\ last.ctxTeam = NoTeam

(* C14: the access token of a successful LogIn has no exp claim exactly    *)
(* when IsLongLiveToken was set; the access token of a LogIn without the   *)
(* flag, of a RefreshToken and of a LogInByLine expires 30 days after the  *)
(* call; every refresh token stored or returned has an exp claim.          *)
C14_ExpiryClaims ==
    /\ (last.op = "LogIn" /\ last.err = "nil") =>
            /\ (last.access.exp = NoExp <=> last.isLongLiveToken)
            /\ (~last.isLongLiveToken => last.access.exp = now + AccessTokenLifespan)
    /\ (last.op \in {"RefreshToken", "LogInByLine"} /\ last.err = "nil") =>
            last.access.exp = now + AccessTokenLifespan
    /\ \A i \in DOMAIN refreshTokens : refreshTokens[i].token.exp # NoExp
    /\ \A ts \in issued : ts.refresh.exp # NoExp

(* a long-lived LogIn returned an access token without exp, next to a      *)
(* refresh token with one                                                  *)
C14_Witness ==
    /\ last.op = "LogIn"
    /\ last.err = "nil"
    /\ last.isLongLiveToken
    /\ last.access.exp = NoExp
    /\ last.refresh.exp = now + RefreshTokenLifespan

(* C15: a LogInByLine whose Line id is the id of no user fails with        *)
(* record-not-found and changes no table; one that fails changes no table; *)
(* one that succeeds leaves the store as the transaction of LogIn would    *)
(* for the same user and refresh token (refresh_tokens row, login entry    *)
(* and the Admin role of a user that has none), the refresh token expiring *)
(* 7 days after the call.                                                  *)
C15_LineLogInAsLogIn ==
    [][last'.op = "LogInByLine" =>
        LET u == FindUserByLineID(users, last'.lineID)
        IN  /\ (u = NoUser /\ last'.fault = "none") => last'.err = "ErrRecordNotFound"
            /\ last'.err # "nil" =>
                    /\ DB' = DB
                    /\ last'.access = NoToken
                    /\ last'.refresh = NoToken
            /\ last'.err = "nil" =>
                    /\ u # NoUser
                    /\ last'.refresh.exp = now + LineRefreshTokenLifespan
                    /\ DB' = LogInTx(DB, u, last'.refresh, "none").db]_vars

(* C16: a successful LogIn of a user without a role creates a role named   *)
(* Admin of the user's organization with all permissions and stores its id *)
(* in the user's role_id, together with the refresh_tokens row; a          *)
(* successful LogIn of a user that has a role changes no role, no          *)
(* permission link and no user.                                            *)
C16_LogInSynthesizesAdminRole ==
    [][(last'.op = "LogIn" /\ last'.err = "nil") =>
        LET u == last'.refresh.id
            r == users'[u].roleID
        IN  /\ users[u].roleID = NoRole =>
                    /\ r # NoRole
                    /\ r \notin DOMAIN roles
                    /\ r \in DOMAIN roles'
                    /\ roles'[r].name = RoleAdmin
                    /\ roles'[r].teamID = users[u].organizationID
                    /\ {p \in AllPermissions : <<r, p>> \in rolePermissions'} = AllPermissions
                    /\ \A q \in DOMAIN roles : roles'[q] = roles[q]
                    /\ refreshTokens' =
                           Append(refreshTokens, [token |-> last'.refresh, revoked |-> FALSE])
            /\ users[u].roleID # NoRole =>
                    /\ roles' = roles
                    /\ rolePermissions' = rolePermissions
                    /\ users' = users]_vars

----------------------------------------------------------------------------
(* Properties of the password reset *)

(* a visible password_resets row holds the pair *)
ResetRecordExists(email, token) ==
    \E i \in DOMAIN passwordResets :
        /\ ~passwordResets[i].deleted
        /\ passwordResets[i].email = email
        /\ passwordResets[i].token = token

(* a visible row holds the pair and was created no more than the expiry    *)
(* time before t                                                           *)
ResetRecordInWindow(email, token, t) ==
    \E i \in DOMAIN passwordResets :
        /\ ~passwordResets[i].deleted
        /\ passwordResets[i].email = email
        /\ passwordResets[i].token = token
        /\ t - passwordResets[i].createdAt <= PasswordResetRecordExpiryTime

(* C17: ValidatePasswordReset answers valid only for a pair that has a     *)
(* visible record inside its expiry window and, the store answering, for   *)
(* every such pair; for a pair whose record is past the window it answers  *)
(* 200 with valid = false, not an error.                                   *)
C17_ValidateWindow ==
    last.op = "ValidatePasswordReset" =>
        /\ last.valid => ResetRecordInWindow(last.email, last.resetToken, now)
        /\ last.fault = "none" =>
            /\ ResetRecordInWindow(last.email, last.resetToken, now) =>
                    last.valid /\ last.err = "nil"
            /\ (/\ ResetRecordExists(last.email, last.resetToken)
                /\ ~ResetRecordInWindow(last.email, last.resetToken, now)) =>
                    /\ ~last.valid
                    /\ last.err = "nil"
                    /\ last.status = StatusOK

(* a record past its window was validated: the answer was false, no error *)
C17_Witness ==
    /\ last.op = "ValidatePasswordReset"
    /\ ResetRecordExists(last.email, last.resetToken)
    /\ ~ResetRecordInWindow(last.email, last.resetToken, now)
    /\ ~last.valid
    /\ last.err = "nil"

(* C18: after a ResetPassword answered 200 no visible record holds the     *)
(* pair; a ValidatePasswordReset of the same pair that comes next (the     *)
(* store answering) answers 200 with valid = false; and a ResetPassword of *)
(* the same pair that comes next is refused and changes no user.           *)
C18_ResetConsumesRecord ==
    [][/\ (last'.op = "ResetPassword" /\ last'.status = StatusOK) =>
                ~\E i \in DOMAIN passwordResets' :
                    /\ ~passwordResets'[i].deleted
                    /\ passwordResets'[i].email = last'.email
                    /\ passwordResets'[i].token = last'.resetToken
       /\ (/\ last.op = "ResetPassword" /\ last.status = StatusOK
           /\ last'.email = last.email /\ last'.resetToken = last.resetToken) =>
                /\ (last'.op = "ValidatePasswordReset" /\ last'.fault = "none") =>
                        /\ ~last'.valid
                        /\ last'.err = "nil"
                        /\ last'.status = StatusOK
                /\ last'.op = "ResetPassword" =>
                        /\ last'.status # StatusOK
                        /\ users' = users]_vars

(* C19: a ResetPassword answered 200 leaves the user of the email with a   *)
(* hash of the new password: on the store it leaves, LogIn with that email *)
(* succeeds with the new password and fails on the password comparison     *)
(* with every other one (the old one, when it differs); nothing else of    *)
(* that user and no other user changes.                                    *)
C19_ResetReplacesHash ==
    [][(last'.op = "ResetPassword" /\ last'.status = StatusOK) =>
        LET u == FindUserByEmail(users, last'.email)
        IN  /\ u # NoUser
            /\ LogInResult(DB', now, last'.email, last'.password, FALSE, "none").err = "nil"
            /\ \A pw \in Passwords \ {last'.password} :
                    LogInResult(DB', now, last'.email, pw, FALSE, "none").err =
                        "ErrMismatchedHashAndPassword"
            /\ \A v \in UserIDs \ {u} : users'[v] = users[v]
            /\ users' = [users EXCEPT ![u].password = users'[u].password]]_vars

(* user a, whose password was pw1, completed a reset to pw2 *)
C19_Witness ==
    /\ last.op = "ResetPassword"
    /\ last.status = StatusOK
    /\ last.email = <<"a">>
    /\ last.password = "pw2"
    /\ CompareHashAndPassword(users[1].password, "pw2")
    /\ ~CompareHashAndPassword(users[1].password, "pw1")
    /\ LogInResult(DB, now, <<"a">>, "pw1", FALSE, "none").err = "ErrMismatchedHashAndPassword"

(* C20: a ResetPassword for a pair that has no visible record inside its   *)
(* expiry window changes no user and no password_resets row and does not   *)
(* answer 200; the store answering, it answers 400 with the invalid email  *)
(* and/or token message.                                                   *)
C20_ResetRefused ==
    [][(/\ last'.op = "ResetPassword"
        /\ ~ResetRecordInWindow(last'.email, last'.resetToken, now)) =>
            /\ users' = users
            /\ passwordResets' = passwordResets
            /\ last'.status # StatusOK
            /\ last'.fault = "none" =>
                    /\ last'.status = StatusBadRequest
                    /\ last'.err = "InvalidEmailOrToken"]_vars

(* C21: a CreatePasswordReset for an email that is the email of no user    *)
(* answers 200 without an error, mails nothing and leaves every            *)
(* password_resets row as it was.                                          *)
C21_UnknownEmailNoRecord ==
    [][(/\ last'.op = "CreatePasswordReset"
        /\ FindUserByEmail(users, last'.email) = NoUser) =>
            /\ last'.status = StatusOK
            /\ last'.err = "nil"
            /\ last'.sent = ""
            /\ passwordResets' = passwordResets]_vars

(* the reset of an unknown email was requested while a record of a known   *)
(* one was in the table                                                    *)
C21_Witness ==
    /\ last.op = "CreatePasswordReset"
    /\ last.email = <<"c">>
    /\ last.status = StatusOK
    /\ last.sent = ""
    /\ passwordResets # <<>>
    /\ \A i \in DOMAIN passwordResets : passwordResets[i].email # <<"c">>

C23_RecreateAfterExpiry ==
    [][(/\ last'.op = "CreatePasswordReset"
        /\ last'.fault = "none"
        /\ FindUserByEmail(users, last'.email) # NoUser
        /\ GetPasswordReset(passwordResets, last'.email) # NoPasswordReset
        /\ now - GetPasswordReset(passwordResets, last'.email).createdAt >
                PasswordResetRecordExpiryTime) =>
            LET old == GetPasswordReset(passwordResets, last'.email)
                n == Len(passwordResets) + 1
            IN  /\ last'.status = StatusCreated
                /\ last'.sent # ""
                /\ last'.sent # old.token
                /\ Len(passwordResets') = n
                /\ passwordResets'[n] = [email |-> last'.email, token |-> last'.sent,
                                         createdAt |-> now, deleted |-> FALSE]
                /\ \A i \in DOMAIN passwordResets :
                        /\ passwordResets'[i].email = last'.email => passwordResets'[i].deleted
                        /\ passwordResets'[i].email # last'.email =>
                                passwordResets'[i] = passwordResets[i]
                /\ ~ValidatePasswordResetResult(passwordResets', last'.email, old.token, now,
                                                "none").valid]_vars

(* an expired record was replaced by one with another token *)
C23_Witness ==
    /\ last.op = "CreatePasswordReset"
    /\ last.status = StatusCreated
    /\ Len(passwordResets) = 2
    /\ passwordResets[1].deleted
    /\ passwordResets[1].email = last.email
    /\ now - passwordResets[1].createdAt > PasswordResetRecordExpiryTime
    /\ ~passwordResets[2].deleted
    /\ passwordResets[2].token = last.sent
    /\ passwordResets[2].token # passwordResets[1].token

(* C25: a CheckPasswordResetExpire that answers 200 reports expired        *)
(* exactly for a record past its expiry window; when it reports expired no *)
(* visible record holds the pair afterwards, when it reports not expired   *)
(* no row has changed; rows of other pairs never change; and for a pair    *)
(* with a visible record it answers 200 whenever the store answers.        *)
C25_CheckExpiredDeletes ==
    [][last'.op = "CheckPasswordResetExpire" =>
        /\ last'.status = StatusOK =>
                /\ ResetRecordExists(last'.email, last'.resetToken)
                /\ last'.expired <=> ~ResetRecordInWindow(last'.email, last'.resetToken, now)
                /\ last'.expired =>
                        ~\E i \in DOMAIN passwordResets' :
                            /\ ~passwordResets'[i].deleted
                            /\ passwordResets'[i].email = last'.email
                            /\ passwordResets'[i].token = last'.resetToken
                /\ ~last'.expired => passwordResets' = passwordResets
        /\ Len(passwordResets') = Len(passwordResets)
        /\ \A i \in DOMAIN passwordResets :
                (passwordResets[i].email # last'.email \/ passwordResets[i].token # last'.resetToken)
                    => passwordResets'[i] = passwordResets[i]
        /\ (last'.fault = "none" /\ ResetRecordExists(last'.email, last'.resetToken)) =>
                last'.status = StatusOK]_vars

(* a record past its window was reported expired and is deleted *)
C25_Witness ==
    /\ last.op = "CheckPasswordResetExpire"
    /\ last.status = StatusOK
    /\ last.expired
    /\ \E i \in DOMAIN passwordResets :
            /\ passwordResets[i].deleted
            /\ passwordResets[i].email = last.email
            /\ passwordResets[i].token = last.resetToken
            /\ now - passwordResets[i].createdAt > PasswordResetRecordExpiryTime

(* C26: a ResetPassword whose password update is committed and whose       *)
(* DELETE of the record then fails answers 500 with the error, and the     *)
(* user's stored hash is the hash of the new password; the record stays.   *)
C26_DeleteFailureKeepsPassword ==
    [][(/\ last'.op = "ResetPassword"
        /\ last'.fault = "delete"
        /\ ResetRecordInWindow(last'.email, last'.resetToken, now)
        /\ FindUserByEmail(users, last'.email) # NoUser) =>
            LET u == FindUserByEmail(users, last'.email)
            IN  /\ last'.status = StatusInternalServerError
                /\ last'.err # "nil"
                /\ CompareHashAndPassword(users'[u].password, last'.password)
                /\ passwordResets' = passwordResets]_vars

(* user a's password was changed from pw1 to pw2 by a reset whose record   *)
(* could not be deleted                                                    *)
C26_Witness ==
    /\ last.op = "ResetPassword"
    /\ last.fault = "delete"
    /\ last.status = StatusInternalServerError
    /\ last.email = <<"a">>
    /\ last.password = "pw2"
    /\ CompareHashAndPassword(users[1].password, "pw2")
    /\ ResetRecordExists(last.email, last.resetToken)

(* C24: in every state reached by interleaved CreatePasswordReset,         *)
(* ValidatePasswordReset, CheckPasswordResetExpire and ResetPassword       *)
(* requests, each email has at most one record that is not deleted.        *)
C24_AtMostOneLiveRecord ==
    \A email \in ResetEmails :
        Cardinality(VisiblePasswordResets(passwordResets, email)) <= 1

(* A role that queries find *)
LiveRole(r) == r \in DOMAIN roles /\ ~roles[r].deleted

(* C27: Update and Delete of a role whose stored name is Admin leave the   *)
(* roles and role_permissions tables as they were (the role, its team and  *)
(* its permission set included) and, when the store answers, fail with     *)
(* ErrAdminRoleCannotBeModified.                                           *)
C27_AdminRoleImmutable ==
    [][(/\ last'.op \in {"RoleUpdate", "RoleDelete"}
        /\ LiveRole(last'.roleID)
        /\ roles[last'.roleID].name = RoleAdmin) =>
            /\ roles' = roles
            /\ rolePermissions' = rolePermissions
            /\ last'.err # "nil"
            /\ last'.fault = "none" => last'.err = "ErrAdminRoleCannotBeModified"]_vars

(* a Delete of team 2's Admin role was refused and the role has all its    *)
(* permissions                                                             *)
C27_Witness ==
    /\ last.op = "RoleDelete"
    /\ last.roleID = "role-2"
    /\ last.err = "ErrAdminRoleCannotBeModified"
    /\ LiveRole("role-2")
    /\ roles["role-2"] = [name |-> RoleAdmin, teamID |-> 2, deleted |-> FALSE]
    /\ \A p \in AllPermissions : <<"role-2", p>> \in rolePermissions

(* C28: Delete of a non-Admin role by its id succeeds, after it the role   *)
(* is not found and no role_permissions row has its id; Delete of an id    *)
(* of no role fails with ErrRoleNotFound.                                  *)
C28_DeleteRemovesAssociations ==
    [][(last'.op = "RoleDelete" /\ last'.fault = "none") =>
            IF LiveRole(last'.roleID)
            THEN roles[last'.roleID].name # RoleAdmin =>
                    /\ last'.err = "nil"
                    /\ FirstRole(roles', last'.roleID) = "nil"
                    /\ ~\E rp \in rolePermissions' : rp[1] = last'.roleID
            ELSE last'.err = "ErrRoleNotFound" /\ roles' = roles]_vars

(* C29: a Create, or an Update of a role that is found and is not Admin,   *)
(* with a permission id that is not in the catalog changes no roles row    *)
(* and no role_permissions row and, when the store answers, fails with     *)
(* ErrPermissionNotFound.                                                  *)
C29_UnknownPermissionPersistsNothing ==
    [][(/\ \/ last'.op = "RoleCreate"
           \/ /\ last'.op = "RoleUpdate"
              /\ LiveRole(last'.roleID)
              /\ roles[last'.roleID].name # RoleAdmin
        /\ \E i \in DOMAIN last'.permIDs : last'.permIDs[i] \notin AllPermissions) =>
            /\ roles' = roles
            /\ rolePermissions' = rolePermissions
            /\ last'.err # "nil"
            /\ last'.fault = "none" => last'.err = "ErrPermissionNotFound"]_vars

(* an Update of role-3 with one known and one unknown permission id was    *)
(* refused                                                                 *)
C29_Witness ==
    /\ last.op = "RoleUpdate"
    /\ last.roleID = "role-3"
    /\ last.permIDs = <<"perm-read", "perm-x">>
    /\ last.err = "ErrPermissionNotFound"
    /\ last.status = StatusNotFound
    /\ LiveRole("role-3")

(* C30: HasPermission answers true exactly when the user's role is a live  *)
(* role linked to exactly one permission of the name; for a user without a *)
(* role, or whose role has no permission of the name, it answers false and *)
(* no error.                                                               *)
C30_HasPermission ==
    (last.op = "HasPermission" /\ last.fault = "none") =>
        LET u == last.userID
            r == IF u \in DOMAIN users THEN users[u].roleID ELSE NoRole
            granted == {p \in AllPermissions :
                            <<r, p>> \in rolePermissions /\ PermissionName(p) = last.permName}
        IN  /\ last.err = "nil"
            /\ last.has <=> (LiveRole(r) /\ Cardinality(granted) = 1)
            /\ (r = NoRole \/ granted = {}) => ~last.has

(* user 3 has role-3, which grants user:read only: asked for user:update   *)
(* the answer is false; and the evaluator has also answered true           *)
C30_Witness ==
    /\ last.op = "HasPermission"
    /\ last.fault = "none"
    /\ last.userID = 3
    /\ 3 \in DOMAIN users
    /\ users[3].roleID = "role-3"
    /\ LiveRole("role-3")
    /\ last.permName = PermUserUpdate
    /\ <<"role-3", "perm-update">> \notin rolePermissions
    /\ ~last.has
    /\ last.err = "nil"

(* C31: activity_logs is append-only: every step leaves each entry it      *)
(* finds as it is, so the log after the step extends the log before it.    *)
C31_ActivityLogAppendOnly ==
    [][/\ Len(activityLogs') >= Len(activityLogs)
       /\ \A i \in DOMAIN activityLogs : activityLogs'[i] = activityLogs[i]]_vars

(* a login entry is followed by the entry of the logout that came later *)
C31_Witness ==
    /\ Len(activityLogs) = 2
    /\ activityLogs[1].activityType = ActTypeLogin
    /\ activityLogs[2].activityType = ActTypeLogout
    /\ last.op = "LogOut"
    /\ last.err = "nil"

(* C32: every stored user's email is in lower case and no two users have   *)
(* the same email.                                                         *)
C32_EmailsLowerCaseAndUnique ==
    /\ \A u \in DOMAIN users : users[u].email = ToLower(users[u].email)
    /\ \A u, v \in DOMAIN users : u # v => users[u].email # users[v].email

(* C33: of two ResetPassword requests with the same email and token and    *)
(* different new passwords at most one succeeds; the other is refused with *)
(* the invalid-token answer.                                               *)
C33_ResetConsumedOnce ==
    \A p, q \in ResetReqIDs :
        (/\ p # q
         /\ reqs[p].op = "ResetPassword" /\ reqs[q].op = "ResetPassword"
         /\ reqs[p].pc = "done" /\ reqs[q].pc = "done"
         /\ reqs[p].email = reqs[q].email
         /\ reqs[p].resetToken = reqs[q].resetToken
         /\ reqs[p].password # reqs[q].password
         /\ reqs[p].status = StatusOK) =>
            reqs[q].status = StatusBadRequest

(* C34: the expiry of a reset record is measured from its creation time    *)
(* only. No step changes the email, token or creation time of a stored     *)
(* row, a resend included; CheckPasswordResetExpire answers expired        *)
(* exactly when more than 3600 seconds have passed since the creation of   *)
(* the visible row of the pair; and a CreatePasswordReset for a user with  *)
(* a visible record replaces it exactly when more than 3600 seconds have   *)
(* passed since its creation, mailing its token as it is otherwise.        *)
C34_ExpiryFromCreation ==
    [][/\ \A i \in DOMAIN passwordResets :
            /\ i \in DOMAIN passwordResets'
            /\ passwordResets'[i].email = passwordResets[i].email
            /\ passwordResets'[i].token = passwordResets[i].token
            /\ passwordResets'[i].createdAt = passwordResets[i].createdAt
       /\ (last'.op = "CheckPasswordResetExpire" /\ last'.status = StatusOK) =>
            \E i \in DOMAIN passwordResets :
                /\ ~passwordResets[i].deleted
                /\ passwordResets[i].email = last'.email
                /\ passwordResets[i].token = last'.resetToken
                /\ last'.expired <=>
                        now - passwordResets[i].createdAt > PasswordResetRecordExpiryTime
       /\ (last'.op = "CreatePasswordReset" /\ last'.fault = "none") =>
            \A i \in DOMAIN passwordResets :
                (/\ ~passwordResets[i].deleted
                 /\ passwordResets[i].email = last'.email
                 /\ FindUserByEmail(users, last'.email) # NoUser) =>
                    IF now - passwordResets[i].createdAt > PasswordResetRecordExpiryTime
                    THEN /\ passwordResets'[i].deleted
                         /\ Len(passwordResets') = Len(passwordResets) + 1
                         /\ passwordResets'[Len(passwordResets')].createdAt = now
                    ELSE /\ passwordResets' = passwordResets
                         /\ last'.sent = passwordResets[i].token]_vars

(* a record created 3600 seconds ago was checked and is not expired *)
C34_Witness ==
    /\ last.op = "CheckPasswordResetExpire"
    /\ last.status = StatusOK
    /\ ~last.expired
    /\ \E i \in DOMAIN passwordResets :
            /\ ~passwordResets[i].deleted
            /\ passwordResets[i].email = last.email
            /\ passwordResets[i].token = last.resetToken
            /\ passwordResets[i].createdAt > 0
            /\ now - passwordResets[i].createdAt = PasswordResetRecordExpiryTime

(* the roles named Admin that the team owns, deleted rows included *)
AdminRolesOf(rs, teamID) ==
    {r \in DOMAIN rs : rs[r].name = RoleAdmin /\ rs[r].teamID = teamID}

(* the teams: those of the users and those of the roles *)
TeamsOf(us, rs) ==
    {us[u].organizationID : u \in DOMAIN us} \cup {rs[r].teamID : r \in DOMAIN rs}

(* C35: through sign-ups, LogIns and role Create, Update and Delete        *)
(* requests every team owns at most one role named Admin, and a role       *)
(* request leaves the roles named Admin as they are: it adds none, renames *)
(* none to Admin and changes none; a request body with the name Admin is   *)
(* answered 400 and writes nothing.                                        *)
C35_OneAdminRolePerTeam ==
    [][/\ \A t \in TeamsOf(users', roles') : Cardinality(AdminRolesOf(roles', t)) <= 1
       /\ last'.op \in {"RoleCreate", "RoleUpdate", "RoleDelete"} =>
            /\ \A r \in DOMAIN roles' :
                    roles'[r].name = RoleAdmin => (r \in DOMAIN roles /\ roles[r] = roles'[r])
            /\ \A r \in DOMAIN roles :
                    roles[r].name = RoleAdmin => roles'[r] = roles[r]
            /\ (last'.op # "RoleDelete" /\ last'.name = RoleAdmin) =>
                    /\ last'.status = StatusBadRequest
                    /\ roles' = roles
                    /\ rolePermissions' = rolePermissions]_vars

(* a request to rename a role to Admin was refused in a store where the    *)
(* sign-up team, the team of the LogIn and the seeded team have one Admin  *)
(* role each                                                               *)
C35_Witness ==
    /\ last.op = "RoleUpdate"
    /\ last.name = RoleAdmin
    /\ last.roleID = RoleEditor
    /\ last.status = StatusBadRequest
    /\ ZeroRoleID \in DOMAIN roles
    /\ Cardinality({t \in TeamsOf(users, roles) :
                        Cardinality(AdminRolesOf(roles, t)) = 1}) = 3

(* C36: a role Update or Delete request made by a principal of a team      *)
(* changes or deletes only roles that team owns: every role owned by       *)
(* another team keeps its name, its owning team, its deleted mark and its  *)
(* permission links.                                                       *)
C36_RoleTenantIsolation ==
    [][last'.op \in {"RoleUpdate", "RoleDelete"} =>
        \A r \in DOMAIN roles :
            roles[r].teamID # last'.teamID =>
                /\ roles'[r] = roles[r]
                /\ {rp \in rolePermissions' : rp[1] = r}
                        = {rp \in rolePermissions : rp[1] = r}]_vars

(* the permissions the visible role is linked to *)
PermissionsOfRole(rps, id) == {rp[2] : rp \in {x \in rps : x[1] = id}}

(* the set of the ids a request lists *)
RequestedPermissions(permIDs) == {permIDs[i] : i \in DOMAIN permIDs}

(* C37: a role Create or Update (the store answering, the name not Admin)  *)
(* whose permission ids are all in the catalog, the role of an Update      *)
(* being found and not Admin, succeeds, and the role it wrote is then      *)
(* linked to exactly the requested permissions.                            *)
C37_KnownPermissionsSucceed ==
    [][(/\ last'.op \in {"RoleCreate", "RoleUpdate"}
        /\ last'.fault = "none"
        /\ last'.name # RoleAdmin
        /\ RequestedPermissions(last'.permIDs) \subseteq AllPermissions
        /\ last'.op = "RoleUpdate" =>
                /\ FirstRole(roles, last'.roleID) # "nil"
                /\ roles[last'.roleID].name # RoleAdmin) =>
            LET id == IF last'.op = "RoleUpdate" THEN last'.roleID ELSE ZeroRoleID
            IN  /\ last'.status = IF last'.op = "RoleUpdate" THEN StatusOK ELSE StatusCreated
                /\ FirstRole(roles', id) # "nil"
                /\ roles'[id].name = last'.name
                /\ PermissionsOfRole(rolePermissions', id)
                        = RequestedPermissions(last'.permIDs)]_vars

(* the user of the email was deleted and no visible user has the email *)
DeletedUserEmail(us, email) ==
    /\ \E u \in DOMAIN us : us[u].deleted /\ us[u].email = ToLower(email)
    /\ FindUserByEmail(us, ToLower(email)) = NoUser

(* C38: a LogIn with the email of a deleted user fails and returns no      *)
(* token; the gate aborts a request whose token carries the id of a        *)
(* deleted user, with 401 when the store answered; and a delete of an id   *)
(* that no visible user has changes no user and, the store answering,      *)
(* fails with ErrUserNotFound.                                             *)
C38_DeletedUserLockedOut ==
    [][/\ (last'.op = "LogIn" /\ DeletedUserEmail(users, last'.email)) =>
            /\ last'.err # "nil"
            /\ last'.access = NoToken
            /\ last'.refresh = NoToken
            /\ issued' = issued
       /\ (/\ last'.op = "AuthRequired"
           /\ last'.token # NoToken
           /\ last'.token.id \in DOMAIN users
           /\ users[last'.token.id].deleted) =>
            /\ ~last'.next
            /\ last'.ctxUser = NoUser
            /\ last'.fault = "none" => last'.status = StatusUnauthorized
       /\ (last'.op = "UserDelete" /\ FindUserByID(users, last'.userID) = NoUser) =>
            /\ users' = users
            /\ last'.fault = "none" => last'.err = "ErrUserNotFound"]_vars

(* C39: IsHTTPCodeClientErr answers true exactly for the codes 400 to 499   *)
(* and IsHTTPCodeServerErr exactly for the codes 500 to 599, the ends      *)
(* included.                                                               *)
C39_HTTPCodeClasses ==
    /\ last.op = "IsHTTPCodeClientErr" => (last.has <=> last.code \in 400..499)
    /\ last.op = "IsHTTPCodeServerErr" => (last.has <=> last.code \in 500..599)

(* the indexes, from 1, of the elements of the slice the callback accepts *)
Accepted(elems, cb) == {i \in DOMAIN elems : Callback(cb, elems[i], i - 1)}

(* C40: SliceFilter of a slice and a callback returns a new slice that     *)
(* holds the accepted elements, each once and in the order of the          *)
(* argument; of an empty slice it returns an empty slice; with a nil       *)
(* callback it returns the argument with all its elements.                 *)
C40_SliceFilterKeepsAccepted ==
    (last.op = "SliceFilter" /\ last.slice.kind = "slice") =>
        /\ last.out.kind = "slice"
        /\ last.slice.elems = <<>> => last.out.elems = <<>>
        /\ last.cb = "nil" => last.out.elems = last.slice.elems
        /\ last.cb # "nil" =>
            LET keep == Accepted(last.slice.elems, last.cb)
                nth(k) == CHOOSE i \in keep : Cardinality({j \in keep : j <= i}) = k
            IN  /\ ~last.out.alias
                /\ Len(last.out.elems) = Cardinality(keep)
                /\ \A k \in DOMAIN last.out.elems :
                        last.out.elems[k] = last.slice.elems[nth(k)]

(* a slice of three elements was filtered by the index: the first and the  *)
(* third element were kept, in that order                                  *)
C40_Witness ==
    /\ last.op = "SliceFilter"
    /\ last.cb = "evenIndex"
    /\ last.slice.elems = <<1, 2, 2>>
    /\ last.out.elems = <<1, 2>>

----------------------------------------------------------------------------
(* Properties of concurrent requests *)

(* C5: a RefreshToken request for a stored refresh token that started      *)
(* after a LogOut of that token had returned nil, whatever other LogOut    *)
(* and RefreshToken requests are in flight, reads the stored flag and      *)
(* fails with ErrRevokedToken, issuing no access token.                    *)
C5_RefreshAfterLogOut ==
    \A r \in ReqIDs :
        (/\ reqs[r].op = "RefreshToken"
         /\ reqs[r].pc = "done"
         /\ reqs[r].afterLogOut
         /\ reqs[r].token.type = "refresh") =>
            /\ reqs[r].access = NoToken
            /\ reqs[r].err # "nil"
            /\ (~reqs[r].fault => reqs[r].err = "ErrRevokedToken")

(* a RefreshToken that started after one LogOut returned and while another *)
(* LogOut of the same token was still between its statements               *)
C5_Witness ==
    \E r, p, q \in ReqIDs :
        /\ reqs[r].op = "RefreshToken" /\ reqs[r].pc = "done" /\ reqs[r].afterLogOut
        /\ reqs[r].err = "ErrRevokedToken"
        /\ reqs[p].op = "LogOut" /\ reqs[p].pc = "done" /\ reqs[p].err = "nil"
        /\ reqs[q].op = "LogOut" /\ reqs[q].pc \in {"update", "getByToken", "createLog"}
        /\ reqs[p].token = reqs[r].token
        /\ reqs[q].token = reqs[r].token

====
